---- MODULE Spec2Model ----
(***************************************************************************)
(* Result / ResultException kernel and the self-validating value objects   *)
(* of scaffold-clean-architecture-typescript, as a state machine.          *)
(*                                                                         *)
(* JavaScript values are records of one shape, so that any two of them can *)
(* be compared: t is the typeof / class tag, name and msg are the name and *)
(* message of an Error (msg is the text of a string), n is the number (or  *)
(* 1/0 for true/false), arr the elements of an array.                      *)
(* Object identity (===) of a ResultException is its field ref: every      *)
(* `new ResultException` takes the next free reference of the heap.        *)
(* The timestamp and the stack trace of an exception are left out: no      *)
(* operation modelled here reads them.                                     *)
(***************************************************************************)
EXTENDS Integers, Sequences, FiniteSets, TLC

VARIABLES res, last, log, nextRef, pending, vo, exc, hook, acc, uid, pw, usr, cmd, agg, per, idv, ts, lgn

vars == <<res, last, log, nextRef, pending, vo, exc, hook, acc, uid, pw, usr, cmd, agg, per, idv, ts, lgn>>

\* The variables of the other components, which a component's actions leave
\* unchanged.
OutsideResult == <<vo, exc, hook, acc, uid, pw, usr, cmd, agg, per, idv, ts,
  lgn>>

OutsideVO == <<res, last, log, nextRef, pending, exc, hook, acc, uid, pw,
  usr, cmd, agg, per, idv, ts, lgn>>

OutsideException == <<res, last, log, nextRef, pending, vo, hook, acc, uid,
  pw, usr, cmd, agg, per, idv, ts, lgn>>

OutsideHook == <<res, last, log, nextRef, pending, vo, exc, acc, uid, pw,
  usr, cmd, agg, per, idv, ts, lgn>>

OutsideValidation == <<res, last, log, nextRef, pending, vo, exc, hook, uid,
  pw, usr, cmd, agg, per, idv, ts, lgn>>

OutsideUUID == <<res, last, log, nextRef, pending, vo, exc, hook, acc, pw,
  usr, cmd, agg, per, idv, ts, lgn>>

OutsidePassword == <<res, last, log, nextRef, pending, vo, exc, hook, acc,
  uid, usr, cmd, agg, per, idv, ts, lgn>>

OutsideUser == <<res, last, log, nextRef, pending, vo, exc, hook, acc, uid,
  pw, cmd, agg, per, idv, ts, lgn>>

OutsideRegister == <<res, last, log, nextRef, pending, vo, exc, hook, acc,
  uid, pw, usr, agg, per, idv, ts, lgn>>

OutsideAggregate == <<res, last, log, nextRef, pending, vo, exc, hook, acc,
  uid, pw, usr, cmd, per, idv, ts, lgn>>

OutsidePersistence == <<res, last, log, nextRef, pending, vo, exc, hook, acc,
  uid, pw, usr, cmd, agg, idv, ts, lgn>>

OutsideID == <<res, last, log, nextRef, pending, vo, exc, hook, acc, uid, pw,
  usr, cmd, agg, per, ts, lgn>>

OutsideTimestamp == <<res, last, log, nextRef, pending, vo, exc, hook, acc,
  uid, pw, usr, cmd, agg, per, idv, lgn>>

OutsideLogin == <<res, last, log, nextRef, pending, vo, exc, hook, acc, uid,
  pw, usr, cmd, agg, per, idv, ts>>

(* ------------------------------ bounds --------------------------------- *)

\* Longest chain of map / flatMap / recover steps applied to one Result.
MaxChain == 2

\* Longest list handed to combine.
MaxCombine == 3

(* --------------------------- JavaScript values ------------------------- *)

JSV(t, name, msg, n, arr) == [t |-> t, name |-> name, msg |-> msg, n |-> n, arr |-> arr]

Undef == JSV("undefined", "", "", 0, <<>>)

Str(s) == JSV("string", "", s, 0, <<>>)

Num(k) == JSV("number", "", "", k, <<>>)

Bool(b) == JSV("boolean", "", "", IF b THEN 1 ELSE 0, <<>>)

\* A generic (non-ResultException) Error object.
Err(name, msg) == JSV("Error", name, msg, 0, <<>>)

Arr(elems) == JSV("array", "", "", 0, elems)

\* String(x) for the values thrown in this model.
DigitStr == <<"1", "2", "3", "4", "5", "6", "7", "8", "9">>

ToStr(x) ==
  CASE x.t = "string" -> x.msg
    [] x.t = "number" -> IF x.n = 0 THEN "0" ELSE DigitStr[x.n]
    [] x.t = "undefined" -> "undefined"
    [] x.t = "boolean" -> IF x.n = 1 THEN "true" ELSE "false"
    [] OTHER -> x.name \o ": " \o x.msg

(* ------------------------- ErrorType, ResultException ------------------ *)

ErrorType ==
  {"VALIDATION", "NOT_FOUND", "CONFLICT", "UNAUTHORIZED", "FORBIDDEN",
   "INTERNAL", "DOMAIN", "APPLICATION", "INFRASTRUCTURE"}

\* metadata: Record<string, unknown>; the keys the kernel writes.
\* errors is the issue list of a validation error (<<>> when absent).
Meta(originalError, name, errorType, errors) ==
  [originalError |-> originalError, name |-> name, errorType |-> errorType,
   errors |-> errors]

EmptyMeta == Meta(Undef, Undef, Undef, <<>>)

\* The options argument of the constructor; Undef marks an option not given.
Options(code, statusCode, source, metadata, isOperational) ==
  [code |-> code, statusCode |-> statusCode, source |-> source,
   metadata |-> metadata, isOperational |-> isOperational]

NoOptions == Options(Undef, Undef, Undef, EmptyMeta, Undef)

\* The mapping with DOMAIN sent to 400 and INTERNAL left to a default.
resolveStatusCodeWrong(type) ==
  CASE type = "VALIDATION" -> 400
    [] type = "NOT_FOUND" -> 404
    [] type = "CONFLICT" -> 409
    [] type = "UNAUTHORIZED" -> 401
    [] type = "FORBIDDEN" -> 403
    [] type = "DOMAIN" -> 400
    [] OTHER -> 500

resolveStatusCode(type) ==
  CASE type = "VALIDATION" -> 400
    [] type = "NOT_FOUND" -> 404
    [] type = "CONFLICT" -> 409
    [] type = "UNAUTHORIZED" -> 401
    [] type = "FORBIDDEN" -> 403
    [] type = "INTERNAL" -> 500
    [] type = "DOMAIN" -> 422
    [] type = "APPLICATION" -> 500
    [] type = "INFRASTRUCTURE" -> 500

\* new ResultException(type, message, options), allocated at reference ref.
NewResultException(ref, type, message, options) ==
  [ref |-> ref,
   name |-> "ResultException",
   type |-> type,
   code |-> IF options.code = Undef THEN type ELSE options.code.msg,
   message |-> message,
   source |-> IF options.source = Undef THEN "unknown" ELSE options.source.msg,
   metadata |-> options.metadata,
   statusCode |-> IF options.statusCode = Undef
                  THEN resolveStatusCode(type) ELSE options.statusCode.n,
   isOperational |-> IF options.isOperational = Undef
                     THEN TRUE ELSE options.isOperational.n = 1]

\* The absent _error of a successful Result.
NoError ==
  [ref |-> 0, name |-> "undefined", type |-> "undefined", code |-> "",
   message |-> "", source |-> "", metadata |-> EmptyMeta, statusCode |-> 0,
   isOperational |-> FALSE]

\* A thrown (or rejected) value: a ResultException, or any other value.
ThrownRex(e) == [k |-> "rex", rex |-> e, val |-> Undef]

ThrownVal(v) == [k |-> "val", rex |-> NoError, val |-> v]

IsResultException(x) == x.k = "rex"

IsError(x) == x.k = "rex" \/ x.val.t = "Error"

\* fromError that wraps whatever it is given, a ResultException too.
fromErrorAlwaysWraps(ref, error, type) ==
  NewResultException(ref, type,
    IF error.k = "rex" THEN error.rex.message ELSE error.val.msg,
    Options(Undef, Undef, Undef,
            Meta(Str(IF error.k = "rex" THEN error.rex.name ELSE error.val.name),
                 Undef, Undef, <<>>), Undef))

\* ResultException.fromError(error, type): error is an Error (possibly a
\* ResultException); a new exception, if one is made, is allocated at ref.
fromError(ref, error, type) ==
  IF IsResultException(error)
  THEN error.rex
  ELSE NewResultException(ref, type, error.val.msg,
         Options(Undef, Undef, Undef,
                 Meta(Str(error.val.name), Undef, Undef, <<>>), Undef))

(* --------------------------------- Result ------------------------------ *)

MkResult(isSuccess, value, error) ==
  [isSuccess |-> isSuccess, value |-> value, error |-> error]

isSuccess(r) == r.isSuccess

isFailure(r) == ~r.isSuccess

\* getValue / getError: threw is TRUE when the accessor throws its plain Error.
getValue(r) ==
  IF ~r.isSuccess
  THEN [threw |-> TRUE, val |-> Undef]
  ELSE [threw |-> FALSE, val |-> r.value]

getError(r) ==
  IF r.isSuccess
  THEN [threw |-> TRUE, error |-> NoError]
  ELSE [threw |-> FALSE, error |-> r.error]

success(value) == MkResult(TRUE, value, NoError)

\* failure passing true for isSuccess.
failureMarkedSuccess(error) == MkResult(TRUE, Undef, error)

failure(error) == MkResult(FALSE, Undef, error)

fail(ref, type, message, options) ==
  failure(NewResultException(ref, type, message, options))

(* ------------------------------ callbacks ------------------------------ *)

\* A callback handed to try / map / flatMap / recover, by what it does when
\* called: "ret" returns out (a Result r for flatMap and recover), "id"
\* returns its argument, "throw" throws x.
Callback(kind, out, r, x) == [kind |-> kind, out |-> out, r |-> r, x |-> x]

NoCallback == Callback("none", Undef, success(Undef), ThrownVal(Undef))

Returns(v) == Callback("ret", v, success(Undef), ThrownVal(Undef))

Identity == Callback("id", Undef, success(Undef), ThrownVal(Undef))

ReturnsResult(r) == Callback("ret", Undef, r, ThrownVal(Undef))

Throws(x) == Callback("throw", Undef, success(Undef), x)

\* What an operation hands back to the action that runs it: the Result r,
\* the number of exceptions it allocated, whether it called its callback.
Done(r, alloc, invoked) == [r |-> r, alloc |-> alloc, invoked |-> invoked]

(* --------------------------- try and tryAsync -------------------------- *)

\* Result.try(fn)
try(ref, fn) ==
  IF fn.kind # "throw"
  THEN Done(success(fn.out), 0, TRUE)
  ELSE IF IsResultException(fn.x)
       THEN Done(failure(fn.x.rex), 0, TRUE)
       ELSE IF IsError(fn.x)
            THEN Done(failure(fromError(ref, fn.x, "INTERNAL")), 1, TRUE)
            ELSE Done(failure(NewResultException(ref, "INTERNAL", "Error desconocido",
                        Options(Undef, Undef, Undef,
                                Meta(fn.x.val, Undef, Undef, <<>>), Undef))),
                      1, TRUE)

\* errorTypeMap: absent, or a function; the functions modelled are the
\* constant ones.
NoSelector == [present |-> FALSE, type |-> "INTERNAL"]

Selector(type) == [present |-> TRUE, type |-> type]

\* Result.handleStandardError(error, errorTypeMap). The errors modelled are
\* instances of the built-in classes (constructor.name is their name) with no
\* own property besides name, message and stack, so
\* extractAdditionalProperties adds nothing to the metadata.
handleStandardError(ref, error, errorTypeMap) ==
  LET errorType == IF errorTypeMap.present THEN errorTypeMap.type ELSE "INTERNAL"
  IN failure(NewResultException(ref, errorType, error.val.msg,
       Options(Str(error.val.name), Undef, Undef,
               Meta(error.val, Str(error.val.name), Str(error.val.name), <<>>), Undef)))

\* handleUnknownError with the fixed message of try for every value.
handleUnknownErrorFixedMessage(ref, error, errorTypeMap) ==
  LET errorType == IF errorTypeMap.present THEN errorTypeMap.type ELSE "INTERNAL"
  IN failure(NewResultException(ref, errorType, "Error desconocido",
       Options(Undef, Undef, Undef,
               Meta(error.val, Undef, Str(error.val.t), <<>>), Undef)))

\* Result.handleUnknownError(error, errorTypeMap)
handleUnknownError(ref, error, errorTypeMap) ==
  LET errorType == IF errorTypeMap.present THEN errorTypeMap.type ELSE "INTERNAL"
      errorMessage == IF error.val.t = "string" THEN error.val.msg
                      ELSE "Error desconocido"
  IN failure(NewResultException(ref, errorType, errorMessage,
       Options(Undef, Undef, Undef,
               Meta(error.val, Undef, Str(error.val.t), <<>>), Undef)))

\* Result.handleAsyncError(error, errorTypeMap)
handleAsyncError(ref, error, errorTypeMap) ==
  IF IsResultException(error)
  THEN Done(failure(error.rex), 0, TRUE)
  ELSE IF IsError(error)
       THEN Done(handleStandardError(ref, error, errorTypeMap), 1, TRUE)
       ELSE Done(handleUnknownError(ref, error, errorTypeMap), 1, TRUE)

\* Result.tryAsync(fn, errorTypeMap), once the awaited promise has settled;
\* a synchronous throw of fn and a rejection take the same catch.
tryAsync(ref, fn, errorTypeMap) ==
  IF fn.kind # "throw"
  THEN Done(success(fn.out), 0, TRUE)
  ELSE handleAsyncError(ref, fn.x, errorTypeMap)

(* ----------------------- map, flatMap, recover ------------------------ *)

\* The value a "ret" / "id" callback returns for argument v.
CallValue(fn, v) == IF fn.kind = "id" THEN v ELSE fn.out

\* map without its early return on a failed receiver.
mapCallsOnFailure(ref, this, fn) ==
  IF fn.kind # "throw"
  THEN Done(success(CallValue(fn, this.value)), 0, TRUE)
  ELSE IF IsResultException(fn.x)
       THEN Done(failure(fn.x.rex), 0, TRUE)
       ELSE Done(failure(fromError(ref,
                   IF IsError(fn.x) THEN fn.x
                   ELSE ThrownVal(Err("Error", ToStr(fn.x.val))),
                   "INTERNAL")),
                 1, TRUE)

\* map wrapping whatever is thrown, a ResultException included, in a new
\* exception.
mapWrapsAgain(ref, this, fn) ==
  IF isFailure(this)
  THEN Done(failure(getError(this).error), 0, FALSE)
  ELSE IF fn.kind # "throw"
       THEN Done(success(CallValue(fn, getValue(this).val)), 0, TRUE)
       ELSE Done(failure(NewResultException(ref, "INTERNAL",
                   IF IsResultException(fn.x) THEN fn.x.rex.message
                   ELSE IF IsError(fn.x) THEN fn.x.val.msg ELSE ToStr(fn.x.val),
                   Options(Undef, Undef, Undef,
                           Meta(Str("Error"), Undef, Undef, <<>>), Undef))),
                 1, TRUE)

\* Result.map(fn)
map(ref, this, fn) ==
  IF isFailure(this)
  THEN Done(failure(getError(this).error), 0, FALSE)
  ELSE IF fn.kind # "throw"
       THEN Done(success(CallValue(fn, getValue(this).val)), 0, TRUE)
       ELSE IF IsResultException(fn.x)
            THEN Done(failure(fn.x.rex), 0, TRUE)
            ELSE Done(failure(fromError(ref,
                        IF IsError(fn.x) THEN fn.x
                        ELSE ThrownVal(Err("Error", ToStr(fn.x.val))),
                        "INTERNAL")),
                      1, TRUE)

\* Result.flatMap(fn)
flatMap(ref, this, fn) ==
  IF isFailure(this)
  THEN Done(failure(getError(this).error), 0, FALSE)
  ELSE IF fn.kind # "throw"
       THEN Done(fn.r, 0, TRUE)
       ELSE IF IsResultException(fn.x)
            THEN Done(failure(fn.x.rex), 0, TRUE)
            ELSE Done(failure(fromError(ref,
                        IF IsError(fn.x) THEN fn.x
                        ELSE ThrownVal(Err("Error", ToStr(fn.x.val))),
                        "INTERNAL")),
                      1, TRUE)

\* Result.recover(fn)
recover(ref, this, fn) ==
  IF isSuccess(this)
  THEN Done(this, 0, FALSE)
  ELSE IF fn.kind # "throw"
       THEN Done(fn.r, 0, TRUE)
       ELSE IF IsResultException(fn.x)
            THEN Done(failure(fn.x.rex), 0, TRUE)
            ELSE Done(failure(fromError(ref,
                        IF IsError(fn.x) THEN fn.x
                        ELSE ThrownVal(Err("Error", ToStr(fn.x.val))),
                        "INTERNAL")),
                      1, TRUE)

(* -------------------------------- combine ------------------------------ *)

\* The for loop of combine from index i on, values being the array so far.
RECURSIVE combineLoop(_, _, _)
combineLoop(results, i, values) ==
  IF i > Len(results)
  THEN success(Arr(values))
  ELSE IF isFailure(results[i])
       THEN failure(getError(results[i]).error)
       ELSE combineLoop(results, i + 1, Append(values, getValue(results[i]).val))

\* combine scanning from the last element.
RECURSIVE combineLastLoop(_, _, _)
combineLastLoop(results, i, values) ==
  IF i < 1
  THEN success(Arr(values))
  ELSE IF isFailure(results[i])
       THEN failure(getError(results[i]).error)
       ELSE combineLastLoop(results, i - 1, <<getValue(results[i]).val>> \o values)

combineFromTheEnd(results) == combineLastLoop(results, Len(results), <<>>)

\* combine without the isFailure test.
combineSkipsFailures(results) ==
  success(Arr([j \in 1..Len(results) |-> results[j].value]))

\* Result.combine(results)
combine(results) == combineLoop(results, 1, <<>>)

(* ------------------------- inputs of the program ----------------------- *)

\* Exceptions that exist before the program starts, at references 1 and 2.
E1 == NewResultException(1, "VALIDATION", "bad input", NoOptions)

E2 ==
  NewResultException(2, "NOT_FOUND", "no such user",
    Options(Str("USER_NOT_FOUND"), Undef, Str("repo"), EmptyMeta, Undef))

InputErrors == {E1, E2}

\* The first reference free for the exceptions the program allocates.
FirstFree == Cardinality(InputErrors) + 1

Values == {Undef, Num(1), Num(2)}

\* What a callback may throw: a ResultException, a generic Error, a string,
\* a number.
ThrownValues ==
  {ThrownRex(E1), ThrownVal(Err("TypeError", "boom")), ThrownVal(Str("oops")),
   ThrownVal(Num(7))}

ValueCallbacks ==
  {Returns(Num(2)), Identity} \cup {Throws(x) : x \in ThrownValues}

ResultCallbacks ==
  {ReturnsResult(success(Num(2))), ReturnsResult(failure(E2))}
    \cup {Throws(x) : x \in ThrownValues}

TryCallbacks == {Returns(v) : v \in Values} \cup {Throws(x) : x \in ThrownValues}

Selectors == {NoSelector, Selector("INFRASTRUCTURE")}

\* The explicit status codes of the options: a non-default one, and 0.
StatusCodes == {Undef, Num(418), Num(0)}

CombineInputs == {success(Num(1)), success(Num(2)), failure(E1), failure(E2)}

SeqsUpTo(S, n) == UNION {[1..k -> S] : k \in 0..n}

(* ------------------------------- the state ----------------------------- *)

\* The operation that produced res, with its inputs: recv is the Result it
\* was called on, ref the next free reference when it started.
Last(op, recv, cb, sel, type, opts, list, ref, invoked) ==
  [op |-> op, recv |-> recv, cb |-> cb, sel |-> sel, type |-> type,
   opts |-> opts, list |-> list, ref |-> ref, invoked |-> invoked]

\* One entry of the log of the current chain.
Step(op, invoked, failed) == [op |-> op, invoked |-> invoked, failed |-> failed]

NoPending == [active |-> FALSE, sel |-> NoSelector]

\* No value object has been constructed.
NoVO ==
  [op |-> "none", input |-> Undef, options |-> [isHashed |-> Undef],
   threw |-> FALSE, x |-> ThrownVal(Undef), value |-> Undef]

\* fromError has not been called.
NoExc ==
  [op |-> "none", error |-> ThrownVal(Undef), type |-> "INTERNAL",
   out |-> NoError, first |-> NoError, next |-> FirstFree]

\* No hook has been called.
NoHook ==
  [op |-> "none", recv |-> MkResult(FALSE, Undef, NoError), action |-> NoCallback,
   r |-> MkResult(FALSE, Undef, NoError), calls |-> 0, arg |-> Undef,
   escaped |-> FALSE]

\* A validation accumulator after construction: _errors = []. since is the
\* history the accumulator is held against: the issues handed to it since
\* the last clearErrors, in the order of the calls.
\* thrown is the exception thrown last, shared says that its
\* metadata.errors is still the array _errors of the accumulator, and
\* atThrow is the list as it was when the exception was thrown.
NoAcc ==
  [op |-> "new", errors |-> <<>>, since |-> <<>>, got |-> <<>>, threw |-> FALSE,
   x |-> ThrownVal(Undef), thrown |-> NoError, shared |-> FALSE, atThrow |-> <<>>]

\* No identifier has been made: a and b will hold UUIDv7 instances, parsed
\* the outcome of parse, cmp the number compareTo returned.
NoUid ==
  [op |-> "none", now |-> 0, a |-> [value |-> <<>>, timestamp |-> 0],
   b |-> [value |-> <<>>, timestamp |-> 0], text |-> <<>>,
   parsed |-> [threw |-> FALSE, id |-> [value |-> <<>>, timestamp |-> 0]],
   cmp |-> 0]

\* No password has been compared: this is the instance compare is called on,
\* plain its argument, out how the call ended.
NoPw ==
  [op |-> "none", this |-> [class |-> "UserPassword", value |-> <<>>, isHashed |-> FALSE],
   plain |-> <<>>, out |-> [threw |-> FALSE, x |-> ThrownVal(Undef), val |-> Undef]]

\* No user has been reconstituted.
NoUser ==
  [op |-> "none",
   before |-> [class |-> "User", name |-> "", email |-> "", password |-> NoPw.this,
               active |-> FALSE, events |-> <<>>],
   args |-> [newName |-> "", newEmail |-> "", currentPassword |-> <<>>,
             newPassword |-> NoPw.this],
   threw |-> FALSE, x |-> ThrownVal(Undef), ret |-> Undef,
   this |-> [class |-> "User", name |-> "", email |-> "", password |-> NoPw.this,
             active |-> FALSE, events |-> <<>>]]

\* Nothing has been registered.
NoCmd ==
  [op |-> "none", request |-> [name |-> Undef, email |-> Undef, password |-> Undef],
   exists |-> MkResult(FALSE, Undef, NoError), save |-> MkResult(FALSE, Undef, NoError),
   out |-> MkResult(FALSE, Undef, NoError), calls |-> <<>>]

\* No aggregate has been constructed: user is the entity it wraps, events
\* its own pending events, emitted the events the entity has emitted since
\* it was made, in order.
NoAgg ==
  [op |-> "none", threw |-> FALSE, ret |-> Undef, user |-> NoUser.this,
   events |-> <<>>, emitted |-> <<>>]

\* Nothing has been persisted: user is the entity of the aggregate handed to
\* the mapper and plain the text its password is the hash of; doc is the
\* document written, loaded the entity read back, verified what
\* verifyPassword(plain) of the loaded aggregate gave.
NoPer ==
  [op |-> "none", user |-> NoUser.this, plain |-> <<>>, threw |-> FALSE,
   x |-> ThrownVal(Undef),
   doc |-> [name |-> <<>>, email |-> <<>>, password |-> Undef, active |-> FALSE],
   loaded |-> NoUser.this, verified |-> Undef]

\* No identifier value object has been made: a and b will hold what two
\* constructions ended in, eq and cmp what a.equals(b) and a.compareTo(b)
\* returned.
NoIdv ==
  [op |-> "none", input |-> Undef,
   a |-> [threw |-> FALSE, x |-> ThrownVal(Undef), value |-> <<>>,
          uuid |-> [value |-> <<>>, timestamp |-> 0]],
   b |-> [threw |-> FALSE, x |-> ThrownVal(Undef), value |-> <<>>,
          uuid |-> [value |-> <<>>, timestamp |-> 0]],
   eq |-> FALSE, cmp |-> 0]

\* No identifier has been made from a timestamp: made is how
\* fromTimestamp(timestamp) ended and parsed how parse of its text ended.
NoTs ==
  [op |-> "none",
   timestamp |-> [integer |-> TRUE, negative |-> FALSE,
                  magnitude |-> [hi |-> 0, lo |-> 0]],
   made |-> [threw |-> FALSE,
             id |-> [value |-> <<>>, timestamp |-> [hi |-> 0, lo |-> 0]]],
   parsed |-> [threw |-> FALSE,
               id |-> [value |-> <<>>, timestamp |-> [hi |-> 0, lo |-> 0]]]]

\* Nobody has logged in: users is what findByEmail answers and signed how
\* jwtService.sign ends when they are asked, calls the operations invoked.
NoLgn ==
  [op |-> "none", request |-> [email |-> Undef, password |-> <<>>],
   users |-> MkResult(FALSE, Undef, NoError),
   signed |-> [threw |-> FALSE, x |-> ThrownVal(Undef), val |-> Undef],
   out |-> MkResult(FALSE, Undef, NoError), calls |-> <<>>]

\* The variable that will hold the Result, before the program has made one.
NoResult == MkResult(FALSE, Undef, NoError)

\* The program has made no Result yet; the heap holds the input exceptions.
ResultInit ==
  /\ res = NoResult
  /\ last = Last("none", NoResult, NoCallback, NoSelector, "INTERNAL",
                 NoOptions, <<>>, FirstFree, FALSE)
  /\ log = <<>>
  /\ nextRef = FirstFree
  /\ pending = NoPending

\* The program makes its Result with a factory: the start of the chain.
Start(op, d, cb, sel, type, opts, list) ==
  /\ ~pending.active
  /\ log = <<>>
  /\ res' = d.r
  /\ last' = Last(op, res, cb, sel, type, opts, list, FirstFree, d.invoked)
  /\ log' = <<Step(op, d.invoked, isFailure(d.r))>>
  /\ nextRef' = FirstFree + d.alloc
  /\ UNCHANGED <<pending, OutsideResult>>

\* A combinator called on the current Result extends the chain.
Chain(op, d, cb) ==
  /\ log # <<>>
  /\ Len(log) <= MaxChain
  /\ res' = d.r
  /\ last' = Last(op, res, cb, NoSelector, "INTERNAL", NoOptions, <<>>, nextRef,
                  d.invoked)
  /\ log' = Append(log, Step(op, d.invoked, isFailure(d.r)))
  /\ nextRef' = nextRef + d.alloc
  /\ UNCHANGED <<pending, OutsideResult>>

Success ==
  \E v \in Values :
    Start("success", Done(success(v), 0, FALSE), Returns(v), NoSelector,
          "INTERNAL", NoOptions, <<>>)

Failure ==
  \E e \in InputErrors :
    Start("failure", Done(failure(e), 0, FALSE), Throws(ThrownRex(e)), NoSelector,
          "INTERNAL", NoOptions, <<>>)

Fail ==
  \E type \in ErrorType, sc \in StatusCodes :
    LET opts == Options(Undef, sc, Undef, EmptyMeta, Undef)
    IN Start("fail", Done(fail(FirstFree, type, "failed", opts), 1, FALSE),
             NoCallback, NoSelector, type, opts, <<>>)

Try ==
  \E fn \in TryCallbacks :
    Start("try", try(FirstFree, fn), fn, NoSelector, "INTERNAL", NoOptions, <<>>)

\* tryAsync calls fn and awaits the promise it returns; the caller awaits
\* tryAsync.
TryAsyncCall ==
  /\ ~pending.active
  /\ log = <<>>
  /\ \E sel \in Selectors : pending' = [active |-> TRUE, sel |-> sel]
  /\ UNCHANGED <<res, last, log, nextRef, OutsideResult>>

\* The awaited promise settles (fn, by its outcome: a resolved value, or a
\* rejection or synchronous throw) and tryAsync returns.
TryAsyncSettle ==
  /\ pending.active
  /\ \E fn \in TryCallbacks :
       LET d == tryAsync(FirstFree, fn, pending.sel)
       IN /\ res' = d.r
          /\ last' = Last("tryAsync", res, fn, pending.sel, "INTERNAL",
                          NoOptions, <<>>, FirstFree, d.invoked)
          /\ log' = <<Step("tryAsync", d.invoked, isFailure(d.r))>>
          /\ nextRef' = FirstFree + d.alloc
  /\ pending' = NoPending
  /\ UNCHANGED OutsideResult

Combine ==
  \E results \in SeqsUpTo(CombineInputs, MaxCombine) :
    Start("combine", Done(combine(results), 0, FALSE), NoCallback, NoSelector,
          "INTERNAL", NoOptions, results)

Map == \E fn \in ValueCallbacks : Chain("map", map(nextRef, res, fn), fn)

FlatMap == \E fn \in ResultCallbacks : Chain("flatMap", flatMap(nextRef, res, fn), fn)

Recover == \E fn \in ResultCallbacks : Chain("recover", recover(nextRef, res, fn), fn)

Init ==
  /\ ResultInit
  /\ vo = NoVO
  /\ exc = NoExc
  /\ hook = NoHook
  /\ acc = NoAcc
  /\ uid = NoUid
  /\ pw = NoPw
  /\ usr = NoUser
  /\ cmd = NoCmd
  /\ agg = NoAgg
  /\ per = NoPer
  /\ idv = NoIdv
  /\ ts = NoTs
  /\ lgn = NoLgn

Next ==
  \/ Success
  \/ Failure
  \/ Fail
  \/ Try
  \/ TryAsyncCall
  \/ TryAsyncSettle
  \/ Combine
  \/ Map
  \/ FlatMap
  \/ Recover

Spec == Init /\ [][Next]_vars

(* ------------------------ validation accumulator ----------------------- *)

\* The strings a value object validates are arrays of characters (arr of a
\* value of tag "string"), so that length, trim and the character-class
\* patterns are computed.
Chars(cs) == JSV("string", "", "", 0, cs)

Null == JSV("null", "", "", 0, <<>>)

\* IValidationError {message, property, metadata}; meta lists the numbers of
\* the metadata (<<>> when there are none).
Issue(message, property, meta) ==
  [message |-> message, property |-> property, meta |-> meta]

\* ValidationHandler.reportError / addError on the accumulated list errors.
reportError(errors, message, property, meta) ==
  Append(errors, Issue(message, property, meta))

\* ValidationHandler.hasErrors / getErrors (a copy of the list).
hasErrors(errors) == Len(errors) > 0

getErrors(errors) == [i \in 1..Len(errors) |-> errors[i]]

\* combineWith that puts the other handler's issues first.
combineWithPrepends(errors, handlerErrors) ==
  IF hasErrors(handlerErrors) THEN getErrors(handlerErrors) \o errors ELSE errors

\* ValidationHandler.combineWith(handler) on the list errors.
combineWith(errors, handlerErrors) ==
  IF hasErrors(handlerErrors) THEN errors \o getErrors(handlerErrors) ELSE errors

\* ValidationHandler.clearErrors
clearErrors(errors) == <<>>

\* What a constructor or a validation step ends in: threw with the thrown x,
\* or the validated value and the issues accumulated so far.
Threw(x) == [threw |-> TRUE, x |-> x, value |-> Undef, errors |-> <<>>]

Fine(value, errors) ==
  [threw |-> FALSE, x |-> ThrownVal(Undef), value |-> value, errors |-> errors]

\* throwIfHasErrors that reports the issues as a DOMAIN error.
throwIfHasErrorsAsDomain(ref, errors, entityName, value) ==
  IF Len(errors) > 0
  THEN Threw(ThrownRex(NewResultException(ref, "DOMAIN",
         "Errores de validación en " \o entityName,
         Options(Undef, Undef, Undef, Meta(Undef, Undef, Undef, errors), Undef))))
  ELSE Fine(value, errors)

\* ValidationHandler.throwIfHasErrors(entityName) on the list errors; the
\* exception is allocated at ref.
throwIfHasErrors(ref, errors, entityName, value) ==
  IF hasErrors(errors)
  THEN Threw(ThrownRex(NewResultException(ref, "VALIDATION",
         "Errores de validación en " \o entityName,
         Options(Str("VALIDATION_ERRORS"), Undef, Undef,
                 Meta(Undef, Undef, Undef, errors), Undef))))
  ELSE Fine(value, errors)

\* Reading a property of a field that is still undefined.
TypeErrorOn(field) ==
  Threw(ThrownVal(Err("TypeError",
    "Cannot read properties of undefined (reading '" \o field \o "')")))

(* --------------------------------- UUIDv7 ------------------------------ *)

\* Texts are sequences of characters. The timestamps modelled are below
\* 2^31, so the first four of the twelve digits of a timestamp are zeros.
HexDigits ==
  <<"0", "1", "2", "3", "4", "5", "6", "7", "8", "9", "a", "b", "c", "d", "e", "f">>

UpperHexDigits == <<"A", "B", "C", "D", "E", "F">>

IsHexDigit(c) ==
  \/ \E i \in 1..16 : HexDigits[i] = c
  \/ \E i \in 1..6 : UpperHexDigits[i] = c

\* The value of a hexadecimal digit, of either case.
HexValue(c) ==
  IF \E i \in 1..16 : HexDigits[i] = c
  THEN (CHOOSE i \in 1..16 : HexDigits[i] = c) - 1
  ELSE (CHOOSE i \in 1..6 : UpperHexDigits[i] = c) + 9

\* Number.prototype.toString(16) of a non-negative integer
RECURSIVE toString16(_)
toString16(n) ==
  IF n < 16 THEN <<HexDigits[n + 1]>>
  ELSE toString16(n \div 16) \o <<HexDigits[(n % 16) + 1]>>

\* String.prototype.padStart(len, c)
padStart(cs, len, c) ==
  IF Len(cs) >= len THEN cs ELSE [i \in 1..(len - Len(cs)) |-> c] \o cs

\* String.prototype.substring(from, to), 0 <= from <= to
substring(cs, from, to) ==
  SubSeq(cs, from + 1, IF to > Len(cs) THEN Len(cs) ELSE to)

\* parseInt(cs, 16) of a text of hexadecimal digits
RECURSIVE parseInt16(_)
parseInt16(cs) ==
  IF cs = <<>> THEN 0
  ELSE parseInt16(SubSeq(cs, 1, Len(cs) - 1)) * 16 + HexValue(cs[Len(cs)])

\* String.prototype.toLowerCase on the characters of an identifier
toLowerCase(cs) ==
  [i \in 1..Len(cs) |->
     IF \E k \in 1..6 : UpperHexDigits[k] = cs[i]
     THEN HexDigits[(CHOOSE k \in 1..6 : UpperHexDigits[k] = cs[i]) + 10]
     ELSE cs[i]]

\* new UUIDv7(value, timestamp)
UUIDv7(value, timestamp) == [value |-> value, timestamp |-> timestamp]

\* _fromTimestamp that writes the digits of the timestamp after the padding
\* is cut, losing the low digits.
UUIDv7_fromTimestampPadEnd(timestamp, randA, variant, randB, randC) ==
  LET timestampHex == toString16(timestamp) \o <<"0", "0", "0", "0">>
  IN UUIDv7(substring(padStart(timestampHex, 12, "0"), 0, 8) \o <<"-">>
              \o substring(padStart(timestampHex, 12, "0"), 8, 12)
              \o <<"-", "7">> \o randA \o <<"-", variant>> \o randB \o <<"-">>
              \o randC, timestamp)

\* UUIDv7._fromTimestamp(timestamp); randA, variant, randB and randC are
\* what _randomHex(3), _getVariantChar(), _randomHex(3) and _randomHex(12)
\* return.
UUIDv7_fromTimestamp(timestamp, randA, variant, randB, randC) ==
  LET timestampHex == padStart(toString16(timestamp), 12, "0")
      timeLow == substring(timestampHex, 0, 8)
      timeMid == substring(timestampHex, 8, 12)
      timeHi == <<"7">> \o randA
      variantAndRandom == <<variant>> \o randB
  IN UUIDv7(timeLow \o <<"-">> \o timeMid \o <<"-">> \o timeHi \o <<"-">>
              \o variantAndRandom \o <<"-">> \o randC, timestamp)

\* UUIDv7.generate(), now being what Date.now() returns.
generate(now, randA, variant, randB, randC) ==
  UUIDv7_fromTimestamp(now, randA, variant, randB, randC)

\* UUIDv7.isValid(uuidString): _REGEX_VALIDATE, which ignores case.
isValid(cs) ==
  /\ Len(cs) = 36
  /\ \A i \in 1..36 :
       IF i \in {9, 14, 19, 24} THEN cs[i] = "-"
       ELSE IF i = 15 THEN cs[i] = "7"
       ELSE IF i = 20 THEN cs[i] \in {"8", "9", "a", "b", "A", "B"}
       ELSE IsHexDigit(cs[i])

\* UUIDv7.parse(uuidString): throws an Error, or returns the instance id.
parse(uuidString) ==
  IF ~isValid(uuidString)
  THEN [threw |-> TRUE, id |-> UUIDv7(<<>>, 0)]
  ELSE [threw |-> FALSE,
        id |-> UUIDv7(toLowerCase(uuidString),
                      parseInt16(SubSeq(uuidString, 1, 8)
                                   \o SubSeq(uuidString, 10, 13)))]

\* A timestamp of up to 55 bits, for the calls that are given more than the
\* 31 bits of the numbers above: hi * 2^24 + lo, with lo below 2^24.
Wide(hi, lo) == [hi |-> hi, lo |-> lo]

\* Number.prototype.toString(16) of such a timestamp
toString16Wide(timestamp) ==
  IF timestamp.hi = 0 THEN toString16(timestamp.lo)
  ELSE toString16(timestamp.hi) \o padStart(toString16(timestamp.lo), 6, "0")

\* parseInt(cs, 16) of twelve digits, as such a timestamp
parseInt16Wide(cs) ==
  Wide(parseInt16(SubSeq(cs, 1, Len(cs) - 6)),
       parseInt16(SubSeq(cs, Len(cs) - 5, Len(cs))))

\* UUIDv7._fromTimestamp(timestamp) on such a timestamp.
UUIDv7_fromTimestampWide(timestamp, randA, variant, randB, randC) ==
  LET timestampHex == padStart(toString16Wide(timestamp), 12, "0")
      timeLow == substring(timestampHex, 0, 8)
      timeMid == substring(timestampHex, 8, 12)
      timeHi == <<"7">> \o randA
      variantAndRandom == <<variant>> \o randB
  IN UUIDv7(timeLow \o <<"-">> \o timeMid \o <<"-">> \o timeHi \o <<"-">>
              \o variantAndRandom \o <<"-">> \o randC, timestamp)

\* A number handed to fromTimestamp: an integer or not, negative or not, and
\* its magnitude when it is a non-negative integer.
TimestampArg(integer, negative, magnitude) ==
  [integer |-> integer, negative |-> negative, magnitude |-> magnitude]

\* UUIDv7.fromTimestamp(timestamp): throws an Error, or returns the
\* instance id.
fromTimestamp(timestamp, randA, variant, randB, randC) ==
  IF ~timestamp.integer \/ timestamp.negative
  THEN [threw |-> TRUE, id |-> UUIDv7(<<>>, Wide(0, 0))]
  ELSE [threw |-> FALSE,
        id |-> UUIDv7_fromTimestampWide(timestamp.magnitude, randA, variant, randB,
                                        randC)]

\* UUIDv7.parse(uuidString), the timestamp being of up to 48 bits.
parseWide(uuidString) ==
  IF ~isValid(uuidString)
  THEN [threw |-> TRUE, id |-> UUIDv7(<<>>, Wide(0, 0))]
  ELSE [threw |-> FALSE,
        id |-> UUIDv7(toLowerCase(uuidString),
                      parseInt16Wide(SubSeq(uuidString, 1, 8)
                                       \o SubSeq(uuidString, 10, 13)))]

\* The place of a character in the collation localeCompare uses: the hyphen
\* before the digits, the digits before the letters.
CollationRank(c) == IF c = "-" THEN 0 ELSE 1 + HexValue(c)

\* String.prototype.localeCompare on two identifiers: -1, 0 or 1.
RECURSIVE localeCompare(_, _)
localeCompare(x, y) ==
  IF x = <<>> /\ y = <<>> THEN 0
  ELSE IF x = <<>> THEN -1
  ELSE IF y = <<>> THEN 1
  ELSE IF CollationRank(Head(x)) < CollationRank(Head(y)) THEN -1
  ELSE IF CollationRank(Head(x)) > CollationRank(Head(y)) THEN 1
  ELSE localeCompare(Tail(x), Tail(y))

\* compareTo that orders by the text alone, from the end.
compareToReversed(this, other) ==
  IF this.timestamp # other.timestamp
  THEN other.timestamp - this.timestamp
  ELSE localeCompare(other.value, this.value)

\* UUIDv7.compareTo(other)
compareTo(this, other) ==
  IF this.timestamp # other.timestamp
  THEN this.timestamp - other.timestamp
  ELSE localeCompare(this.value, other.value)

(* ---------------------- the object under construction -------------- *)

\* A field of `this` that no statement has assigned yet.
Unassigned == [defined |-> FALSE]

\* `this` when a constructor starts: an object of the class, none of whose
\* fields (options or _options, isHashed, _originalValue) is assigned.
NewObject(class) ==
  [class |-> class, options |-> Unassigned, isHashed |-> Undef,
   originalValue |-> Undef]

(* ------------------------------ UserPassword --------------------------- *)

IsSpace(c) == c = " "

\* String.prototype.trim
RECURSIVE TrimLeft(_)
TrimLeft(cs) ==
  IF cs # <<>> /\ IsSpace(Head(cs)) THEN TrimLeft(Tail(cs)) ELSE cs

RECURSIVE TrimRight(_)
TrimRight(cs) ==
  IF cs # <<>> /\ IsSpace(cs[Len(cs)])
  THEN TrimRight(SubSeq(cs, 1, Len(cs) - 1)) ELSE cs

trim(cs) == TrimRight(TrimLeft(cs))

UpperChars == {"A", "B", "C", "D", "E", "F"}

LowerChars == {"a", "b", "c", "d", "e", "f", "g", "k", "w", "x"}

DigitChars == {"0", "1", "2"}

\* Characters of the class [!@#$%^&*()_+\-=\[\]{};':"\\|,.<>\/?] in use here.
SpecialChars == {"!", "$", "@", "."}

Has(cs, class) == \E i \in 1..Len(cs) : cs[i] \in class

HasSpace(cs) == \E i \in 1..Len(cs) : IsSpace(cs[i])

\* value.startsWith('$2b$')
HashPrefix == <<"$", "2", "b", "$">>

startsWith(cs, prefix) ==
  Len(cs) >= Len(prefix) /\ SubSeq(cs, 1, Len(prefix)) = prefix

\* minLength of a plaintext and of a hashed password, and maxLength.
PlainMinLength == 8

HashedMinLength == 60

PasswordMaxLength == 100

\* The options of the constructor of UserPassword.
PasswordOptions(isHashed) == [isHashed |-> isHashed]

\* UserPassword.validateString(value) of context/domain, with thisIsHashed
\* the value of this.isHashed when it runs.
UserPassword_validateString(value, thisIsHashed) ==
  IF thisIsHashed = Bool(TRUE)
  THEN IF ~startsWith(value.arr, HashPrefix)
       THEN reportError(<<>>, "El hash de la contraseña no tiene el formato esperado",
                        "value", <<>>)
       ELSE <<>>
  ELSE LET e1 == IF HasSpace(value.arr)
                 THEN reportError(<<>>, "La contraseña no puede contener espacios",
                                  "value", <<>>)
                 ELSE <<>>
           e2 == IF ~Has(value.arr, UpperChars)
                 THEN reportError(e1,
                        "La contraseña debe contener al menos una letra mayúscula",
                        "value", <<>>)
                 ELSE e1
           e3 == IF ~Has(value.arr, LowerChars)
                 THEN reportError(e2,
                        "La contraseña debe contener al menos una letra minúscula",
                        "value", <<>>)
                 ELSE e2
           e4 == IF ~Has(value.arr, DigitChars)
                 THEN reportError(e3, "La contraseña debe contener al menos un número",
                                  "value", <<>>)
                 ELSE e3
       IN IF ~Has(value.arr, SpecialChars)
          THEN reportError(e4,
                 "La contraseña debe contener al menos un carácter especial",
                 "value", <<>>)
          ELSE e4

\* PasswordPolicy.validateSecurity(password): the message of the first rule
\* broken, "" when none is.
validateSecurity(password) ==
  CASE HasSpace(password.arr) -> "La contraseña no puede contener espacios"
    [] ~HasSpace(password.arr) /\ ~Has(password.arr, UpperChars) ->
         "La contraseña debe contener al menos una letra mayúscula"
    [] ~HasSpace(password.arr) /\ Has(password.arr, UpperChars)
         /\ ~Has(password.arr, LowerChars) ->
         "La contraseña debe contener al menos una letra minúscula"
    [] ~HasSpace(password.arr) /\ Has(password.arr, UpperChars)
         /\ Has(password.arr, LowerChars) /\ ~Has(password.arr, DigitChars) ->
         "La contraseña debe contener al menos un número"
    [] ~HasSpace(password.arr) /\ Has(password.arr, UpperChars)
         /\ Has(password.arr, LowerChars) /\ Has(password.arr, DigitChars)
         /\ ~Has(password.arr, SpecialChars) ->
         "La contraseña debe contener al menos un carácter especial"
    [] OTHER -> ""

\* UserPassword.validateString(value) of contexts/security, which asks the
\* password policy.
SecurityUserPassword_validateString(value, thisIsHashed) ==
  IF thisIsHashed = Bool(TRUE)
  THEN IF ~startsWith(value.arr, HashPrefix)
       THEN reportError(<<>>, "El hash de la contraseña no tiene el formato esperado",
                        "UserPassword", <<>>)
       ELSE <<>>
  ELSE IF validateSecurity(value) # ""
       THEN reportError(<<>>, validateSecurity(value), "UserPassword", <<>>)
       ELSE <<>>

(* -------------------------- StringValueObject -------------------------- *)

StringOptions(objectName, minLength, maxLength, allowEmpty, trimOption) ==
  [defined |-> TRUE, objectName |-> objectName, minLength |-> minLength,
   maxLength |-> maxLength, allowEmpty |-> allowEmpty, trim |-> trimOption,
   pattern |-> Undef, patternMessage |-> Undef]

\* The options with pattern and patternMessage given; a pattern is held by
\* the name of the static field that keeps it.
WithPattern(options, pattern, patternMessage) ==
  [options EXCEPT !.pattern = Str(pattern), !.patternMessage = Str(patternMessage)]

\* The decimal text of the lengths the messages name.
LengthText(n) ==
  CASE n = 8 -> "8" [] n = 60 -> "60" [] n = 100 -> "100" [] n = 5 -> "5"
    [] n = 200 -> "200" [] n = 2 -> "2" [] n = 50 -> "50" [] n = 500 -> "500"
    [] OTHER -> "n"

\* The letters, and the characters of [a-z0-9], in use here.
Letters == UpperChars \cup LowerChars

Alnum == LowerChars \cup DigitChars

\* Characters of [a-z0-9!#$%&'*+/=?^_`{|}~-] in use here.
EmailLocalChars == Alnum \cup {"!", "$", "-", "_"}

\* (?:[a-z0-9](?:[a-z0-9-]*[a-z0-9])?\.)+ less its last dot: labels that
\* start and end with [a-z0-9], joined by dots.
DomainLabels(d) ==
  /\ d # <<>>
  /\ \A k \in 1..Len(d) : d[k] \in Alnum \cup {"-", "."}
  /\ d[1] \in Alnum
  /\ d[Len(d)] \in Alnum
  /\ \A k \in 1..Len(d) : d[k] = "." => (d[k - 1] \in Alnum /\ d[k + 1] \in Alnum)

\* UserEmail.EMAIL_PATTERN.test(cs) of context/domain; the pattern has no
\* anchors: a local character, '@', labels, a dot and one of [a-z0-9].
EMAIL_PATTERN_test(cs) ==
  \E i \in 2..Len(cs) :
    /\ cs[i] = "@"
    /\ cs[i - 1] \in EmailLocalChars
    /\ \E j \in (i + 2)..(Len(cs) - 1) :
         /\ cs[j] = "."
         /\ cs[j + 1] \in Alnum
         /\ DomainLabels(SubSeq(cs, i + 1, j - 1))

\* UserEmail.EMAIL_PATTERN.test(cs) of contexts/security:
\* ^[a-zA-Z0-9._%+-]+@[a-zA-Z0-9.-]+\.[a-zA-Z]{2,}$
SecurityEMAIL_PATTERN_test(cs) ==
  \E i \in 2..Len(cs) :
    /\ cs[i] = "@"
    /\ \A k \in 1..(i - 1) : cs[k] \in Letters \cup DigitChars \cup {".", "_", "-"}
    /\ \E j \in (i + 2)..(Len(cs) - 2) :
         /\ cs[j] = "."
         /\ \A k \in (i + 1)..(j - 1) : cs[k] \in Letters \cup DigitChars \cup {".", "-"}
         /\ \A k \in (j + 1)..Len(cs) : cs[k] \in Letters

\* UserName.NAME_PATTERN.test(cs): ^[a-zA-Z...\s'-]+$
NAME_PATTERN_test(cs) ==
  cs # <<>> /\ \A k \in 1..Len(cs) : cs[k] \in Letters \cup {" ", "'", "-"}

\* pattern.test(value) for the pattern of that name.
test(pattern, cs) ==
  CASE pattern = "EMAIL_PATTERN" -> EMAIL_PATTERN_test(cs)
    [] pattern = "SecurityEMAIL_PATTERN" -> SecurityEMAIL_PATTERN_test(cs)
    [] OTHER -> NAME_PATTERN_test(cs)

\* UserEmail.validateString of context/domain: value.includes('@') and
\* value.split('@')[1].includes('.')
UserEmail_validateString(value) ==
  LET cs == value.arr
      ats == {i \in 1..Len(cs) : cs[i] = "@"}
      first == IF ats = {} THEN 0 ELSE CHOOSE i \in ats : \A k \in ats : i <= k
      later == {k \in ats : k > first}
      until == IF later = {} THEN Len(cs) + 1
               ELSE CHOOSE k \in later : \A m \in later : k <= m
  IN IF ats = {} \/ ~\E k \in (first + 1)..(until - 1) : cs[k] = "."
     THEN reportError(<<>>, "El dominio del correo electrónico no es válido",
                      "value", <<>>)
     ELSE <<>>

\* UserName.validateString of context/domain: /\s\s+/ and /^['-]|['-]$/
UserName_validateString(value) ==
  LET cs == value.arr
      e1 == IF \E k \in 1..(Len(cs) - 1) : IsSpace(cs[k]) /\ IsSpace(cs[k + 1])
            THEN reportError(<<>>,
                   "El nombre no puede contener múltiples espacios consecutivos",
                   "value", <<>>)
            ELSE <<>>
  IN IF cs # <<>> /\ (cs[1] \in {"'", "-"} \/ cs[Len(cs)] \in {"'", "-"})
     THEN reportError(e1,
            "El nombre no puede comenzar ni terminar con apóstrofes o guiones",
            "value", <<>>)
     ELSE e1

\* UserPassword.validateString of the class with fromHashed: one issue when
\* any of the four classes of characters is missing.
SharedUserPassword_validateString(value, thisIsHashed) ==
  IF thisIsHashed # Bool(TRUE)
     /\ ~(Has(value.arr, UpperChars) /\ Has(value.arr, LowerChars)
           /\ Has(value.arr, DigitChars) /\ Has(value.arr, SpecialChars))
  THEN reportError(<<>>,
         "La contraseña debe contener al menos una letra mayúscula, una letra minúscula, un número y un carácter especial",
         "value", <<>>)
  ELSE <<>>

\* this.validateString(value): the method of the class of `this`.
validateString(this, value) ==
  CASE this.class = "UserPassword" ->
         UserPassword_validateString(value, this.isHashed)
    [] this.class = "SecurityUserPassword" ->
         SecurityUserPassword_validateString(value, this.isHashed)
    [] this.class = "UserEmail" -> UserEmail_validateString(value)
    [] this.class = "UserName" -> UserName_validateString(value)
    [] this.class = "SharedUserPassword" ->
         SharedUserPassword_validateString(value, this.isHashed)
    [] OTHER -> <<>>

\* StringValueObject.validate(value) on the object `this`.
StringValueObject_validate(this, value) ==
  IF ~this.options.defined
  THEN TypeErrorOn("allowEmpty")
  ELSE LET len == Len(value.arr)
           e1 == IF this.options.allowEmpty # Bool(TRUE) /\ len = 0
                 THEN reportError(<<>>, "El valor no puede estar vacío", "value", <<>>)
                 ELSE <<>>
           e2 == IF this.options.minLength # Undef /\ len < this.options.minLength.n
                 THEN reportError(e1,
                        "El valor debe tener al menos "
                          \o LengthText(this.options.minLength.n) \o " caracteres",
                        "value", <<len, this.options.minLength.n>>)
                 ELSE e1
           e3 == IF this.options.maxLength # Undef /\ len > this.options.maxLength.n
                 THEN reportError(e2,
                        "El valor no puede exceder los "
                          \o LengthText(this.options.maxLength.n) \o " caracteres",
                        "value", <<len, this.options.maxLength.n>>)
                 ELSE e2
           e4 == IF this.options.pattern # Undef
                    /\ ~test(this.options.pattern.msg, value.arr)
                 THEN reportError(e3,
                        IF this.options.patternMessage \in {Undef, Null}
                        THEN "El valor no cumple con el formato requerido"
                        ELSE this.options.patternMessage.msg,
                        "value", <<>>)
                 ELSE e3
       IN Fine(value, e4 \o validateString(this, value))

(* -------------------------- NumberValueObject -------------------------- *)

\* The numbers modelled are integers, NaN and Infinity.
NaN == JSV("number", "NaN", "", 0, <<>>)

Infinity == JSV("number", "Infinity", "", 0, <<>>)

isFinite(value) == value.t = "number" /\ value.name = ""

NumberOptions(objectName, min, max, allowNegative, allowZero) ==
  [defined |-> TRUE, objectName |-> objectName, min |-> min, max |-> max,
   allowNegative |-> allowNegative, allowZero |-> allowZero]

\* this.validateNumber(value): the class modelled adds no rule.
validateNumber(this, value) == <<>>

\* NumberValueObject.validate(value) on the object `this`. An integer passes the integer and maxDecimals
\* rules; the classes modelled give no customValidator.
NumberValueObject_validate(this, value) ==
  IF ~isFinite(value)
  THEN Fine(value, reportError(<<>>, "El valor debe ser un número finito", "value", <<>>))
  ELSE IF ~this.options.defined
       THEN TypeErrorOn("min")
       ELSE LET e1 == IF this.options.min # Undef /\ value.n < this.options.min.n
                      THEN reportError(<<>>, "El valor no puede ser menor que el mínimo",
                                       "value", <<value.n, this.options.min.n>>)
                      ELSE <<>>
                e2 == IF this.options.max # Undef /\ value.n > this.options.max.n
                      THEN reportError(e1, "El valor no puede ser mayor que el máximo",
                                       "value", <<value.n, this.options.max.n>>)
                      ELSE e1
                e3 == IF this.options.allowNegative = Bool(FALSE) /\ value.n < 0
                      THEN reportError(e2, "No se permiten valores negativos", "value",
                                       <<value.n>>)
                      ELSE e2
                e4 == IF this.options.allowZero = Bool(FALSE) /\ value.n = 0
                      THEN reportError(e3, "El valor no puede ser cero", "value", <<>>)
                      ELSE e3
            IN Fine(value, e4 \o validateNumber(this, value))

(* -------------------------- BooleanValueObject ------------------------- *)

BooleanOptions(objectName, allowNull, defaultValue, convertValues) ==
  [defined |-> TRUE, objectName |-> objectName, allowNull |-> allowNull,
   defaultValue |-> defaultValue, convertValues |-> convertValues]

\* toLowerCase on the letters in use.
ToLower(c) ==
  CASE c = "T" -> "t" [] c = "R" -> "r" [] c = "U" -> "u" [] c = "E" -> "e"
    [] c = "Y" -> "y" [] c = "S" -> "s" [] c = "N" -> "n" [] c = "O" -> "o"
    [] OTHER -> c

TrueWords ==
  {<<"t", "r", "u", "e">>, <<"1">>, <<"y", "e", "s">>, <<"s", "i">>, <<"s", "í">>}

\* BooleanValueObject.convertToBoolean(value) for strings and numbers.
convertToBoolean(value) ==
  IF value.t = "string"
  THEN trim([i \in 1..Len(value.arr) |-> ToLower(value.arr[i])]) \in TrueWords
  ELSE value.n # 0

\* this.validateBoolean(value): UserStatus and UserActive add no rule.
validateBoolean(this, value) == <<>>

\* BooleanValueObject.validate(value) on the object `this`. The
\* classes modelled give no customValidator.
BooleanValueObject_validate(this, value) ==
  IF value.t # "boolean"
  THEN Fine(value, reportError(<<>>, "El valor debe ser un booleano", "value", <<>>))
  ELSE IF ~this.options.defined
       THEN TypeErrorOn(IF this.originalValue \in {Null, Undef} THEN "allowNull"
                        ELSE IF this.originalValue.t # "boolean" THEN "convertValues"
                        ELSE "customValidator")
       ELSE LET e1 == IF this.originalValue \in {Null, Undef}
                         /\ this.options.allowNull # Bool(TRUE)
                      THEN reportError(<<>>, "El valor no puede ser nulo o indefinido",
                                       "value", <<>>)
                      ELSE <<>>
                e2 == IF this.originalValue.t # "boolean"
                         /\ this.options.convertValues # Bool(TRUE)
                      THEN reportError(e1, "El valor debe ser un booleano", "value", <<>>)
                      ELSE e1
            IN Fine(value, e2 \o validateBoolean(this, value))

(* ----------------------------- ValueObject ----------------------------- *)

StringClasses ==
  {"UserPassword", "SecurityUserPassword", "UserEmail", "UserName",
   "SecurityUserEmail", "SecurityUserName", "SharedUserPassword"}

BooleanClasses == {"UserStatus", "UserActive"}

IDClasses == {"UserID"}

\* this.validateID(value): UserID adds no rule.
validateID(this, value) == <<>>

\* IDValueObject.validate(value) on the object `this`; it reads no field of
\* the object.
IDValueObject_validate(this, value) ==
  IF value.arr = <<>>
  THEN Fine(value, reportError(<<>>, "El ID no puede estar vacío", "value", <<>>))
  ELSE IF ~isValid(value.arr)
  THEN Fine(value, reportError(<<>>,
              "El formato del ID no es válido. Debe ser un UUIDv7", "value", <<>>))
  ELSE Fine(value, validateID(this, value))

\* this.validate(value): the method of the class of `this`.
validate(this, value) ==
  IF this.class \in StringClasses THEN StringValueObject_validate(this, value)
  ELSE IF this.class \in BooleanClasses THEN BooleanValueObject_validate(this, value)
  ELSE IF this.class \in IDClasses THEN IDValueObject_validate(this, value)
  ELSE NumberValueObject_validate(this, value)

\* The constructor.name of the class of `this`.
ConstructorName(this) ==
  CASE this.class = "SecurityUserPassword" -> "UserPassword"
    [] this.class = "SecurityUserEmail" -> "UserEmail"
    [] this.class = "SecurityUserName" -> "UserName"
    [] this.class = "SharedUserPassword" -> "UserPassword"
    [] OTHER -> this.class

\* ValueObject.constructor(value, objectName) on the object `this`, which
\* the subclass constructor has not reached yet.
ValueObject(ref, this, value, objectName) ==
  LET name == IF objectName \in {Undef, Null} THEN ConstructorName(this) ELSE objectName.msg
  IN IF value = Null \/ value = Undef
     THEN throwIfHasErrors(ref,
            reportError(<<>>, "El valor no puede ser null o undefined", "value", <<>>),
            name, value)
     ELSE LET v == validate(this, value)
          IN IF v.threw THEN v
             ELSE throwIfHasErrors(ref, v.errors, name, value)

(* ------------------------- the concrete constructors ------------------- *)

\* StringValueObject.constructor(value, options) on the object `this`:
\* super() runs before the constructor assigns this.options.
StringValueObject(ref, this, value, options) ==
  LET processedValue ==
        IF options.trim # Bool(FALSE) /\ value \notin {Null, Undef}
           /\ Len(value.arr) > 0
        THEN Chars(trim(value.arr)) ELSE value
  IN ValueObject(ref, this, processedValue, options.objectName)

\* UserPassword.constructor(value, options) of context/domain. this.isHashed
\* is assigned after super() has returned.
UserPassword(ref, value, options) ==
  StringValueObject(ref, NewObject("UserPassword"), value,
    StringOptions(Str("UserPassword"),
      IF options.isHashed = Bool(TRUE) THEN Num(HashedMinLength)
      ELSE Num(PlainMinLength),
      Num(PasswordMaxLength), Bool(FALSE), Bool(TRUE)))

\* UserPassword.constructor(value, options) of contexts/security.
SecurityUserPassword(ref, value, options) ==
  StringValueObject(ref, NewObject("SecurityUserPassword"), value,
    StringOptions(Str("UserPassword"),
      IF options.isHashed = Bool(TRUE) THEN Num(HashedMinLength)
      ELSE Num(PlainMinLength),
      Num(PasswordMaxLength), Bool(FALSE), Bool(TRUE)))

\* UserEmail.constructor(value) of context/domain
UserEmail(ref, value) ==
  StringValueObject(ref, NewObject("UserEmail"), value,
    WithPattern(StringOptions(Str("UserEmail"), Num(5), Num(200), Bool(FALSE),
                              Bool(TRUE)),
                "EMAIL_PATTERN", "El formato del correo electrónico no es válido"))

\* UserEmail.constructor(value) of contexts/security; validateString adds
\* nothing.
SecurityUserEmail(ref, value) ==
  StringValueObject(ref, NewObject("SecurityUserEmail"), value,
    WithPattern(StringOptions(Str("UserEmail"), Undef, Num(500), Bool(FALSE),
                              Bool(TRUE)),
                "SecurityEMAIL_PATTERN", "El formato del email no es válido"))

\* UserName.constructor(value) of context/domain
UserName(ref, value) ==
  StringValueObject(ref, NewObject("UserName"), value,
    WithPattern(StringOptions(Str("UserName"), Num(2), Num(50), Bool(FALSE),
                              Bool(TRUE)),
                "NAME_PATTERN",
                "El nombre solo puede contener letras, espacios, apóstrofes y guiones"))

\* UserName.constructor(value) of contexts/security; validateString adds
\* nothing.
SecurityUserName(ref, value) ==
  StringValueObject(ref, NewObject("SecurityUserName"), value,
    StringOptions(Str("UserName"), Undef, Num(500), Bool(FALSE), Bool(TRUE)))

\* UserPassword.constructor(value, isHashed = false) of the class with
\* fromHashed.
SharedUserPassword(ref, value, isHashed) ==
  StringValueObject(ref, NewObject("SharedUserPassword"), value,
    StringOptions(Str("UserPassword"),
      IF isHashed = Bool(TRUE) THEN Undef ELSE Num(PlainMinLength),
      Undef, Bool(FALSE), Bool(FALSE)))

\* NumberValueObject.constructor(value, options): this.options is assigned
\* after super() has returned.
NumberValueObject(ref, this, value, options) ==
  ValueObject(ref, this, value, options.objectName)

\* BooleanValueObject.constructor(value, options). No statement of the class
\* assigns this._originalValue, and this._options is assigned after super()
\* has returned: validate reads both unassigned.
BooleanValueObject(ref, this, value, options) ==
  LET processedValue ==
        IF value = Null \/ value = Undef
        THEN IF options.allowNull = Bool(TRUE)
             THEN (IF options.defaultValue \in {Null, Undef} THEN Bool(FALSE)
                   ELSE options.defaultValue)
             ELSE Bool(FALSE)
        ELSE IF value.t = "boolean" THEN value
        ELSE IF options.convertValues = Bool(TRUE) THEN Bool(convertToBoolean(value))
        ELSE Bool(FALSE)
  IN ValueObject(ref, this, processedValue, options.objectName)

\* UserStatus.constructor(value = true); validateBoolean adds nothing.
UserStatus(ref, value) ==
  BooleanValueObject(ref, NewObject("UserStatus"), IF value = Undef THEN Bool(TRUE) ELSE value,
    BooleanOptions(Str("UserStatus"), Bool(FALSE), Undef, Undef))

\* UserActive.constructor(value = true); validateBoolean adds nothing.
UserActive(ref, value) ==
  BooleanValueObject(ref, NewObject("UserActive"), IF value = Undef THEN Bool(TRUE) ELSE value,
    BooleanOptions(Str("UserActive"), Bool(TRUE), Bool(TRUE), Bool(TRUE)))

\* How the constructor of an identifier ends: it throws x, or the instance
\* has the value and the UUIDv7 _uuid.
IDThrew(x) == [threw |-> TRUE, x |-> x, value |-> <<>>, uuid |-> UUIDv7(<<>>, 0)]

IDMade(value, uuid) ==
  [threw |-> FALSE, x |-> ThrownVal(Undef), value |-> value, uuid |-> uuid]

\* The constructor of IDValueObject after super(finalValue, objectName),
\* which ended as made: this._uuid = uuid when there is one (parsed says
\* that there is), an issue and a throw otherwise.
IDValueObjectOf(ref, made, parsed, uuid) ==
  IF made.threw THEN IDThrew(made.x)
  ELSE IF parsed THEN IDMade(made.value.arr, uuid)
  ELSE IDThrew(throwIfHasErrors(ref,
         reportError(<<>>,
           "El ID no es válido. Debe ser un UUIDv7 o autoGenerate debe ser true",
           "value", <<>>), "UserID", made.value).x)

\* IDValueObject.constructor(value, options) through new UserID(value):
\* generated is what UUIDv7.generate() returns. The text given is parsed,
\* and it is the text given that becomes the value.
IDValueObject(ref, value, autoGenerate, generated) ==
  IF (value = Undef \/ value.arr = <<>>) /\ autoGenerate
  THEN IDValueObjectOf(ref,
         ValueObject(ref, NewObject("UserID"), Chars(generated.value), Str("UserID")),
         TRUE, generated)
  ELSE IF value # Undef /\ value.arr # <<>>
  THEN IDValueObjectOf(ref,
         ValueObject(ref, NewObject("UserID"), value, Str("UserID")),
         ~parse(value.arr).threw, parse(value.arr).id)
  ELSE IDValueObjectOf(ref,
         ValueObject(ref, NewObject("UserID"), Chars(<<>>), Str("UserID")),
         FALSE, UUIDv7(<<>>, 0))

\* ValueObject.isEqual(value): both values are strings.
isEqual(this, value) == this.value = value

\* ValueObject.equals(other), other being a value object.
equals(this, other) == isEqual(this, other.value)

\* IDValueObject.compareTo(other)
IDValueObject_compareTo(this, other) == compareTo(this.uuid, other.uuid)

(* ------------------- constructing value objects: the state ------------- *)

\* Longest generated password text.
MaxText == 2

Alphabet == {"A", "a", "1", "!", " "}

\* "Abcdef1!" and variations of it that lack one class, hold a space, or are
\* padded; "weak"; texts of the length of a hash, with and without prefix.
SamplePasswords ==
  {<<"A", "b", "c", "d", "e", "f", "1", "!">>,
   <<"w", "e", "a", "k">>,
   <<"a", "b", "c", "d", "e", "f", "1", "!">>,
   <<"A", "B", "C", "D", "E", "F", "1", "!">>,
   <<"A", "b", "c", "d", "e", "f", "g", "!">>,
   <<"A", "b", "c", "d", "e", "f", "g", "1">>,
   <<"A", "b", "c", " ", "d", "e", "f", "1", "!">>,
   <<" ", "A", "b", "c", "d", "e", "f", "1", "!", " ">>,
   HashPrefix \o [i \in 1..(HashedMinLength - Len(HashPrefix)) |-> "x"],
   [i \in 1..HashedMinLength |-> "x"],
   HashPrefix \o <<"a", "b", "c">>}

PasswordInputs ==
  {Null, Undef} \cup {Chars(cs) : cs \in SamplePasswords \cup SeqsUpTo(Alphabet, MaxText)}

IsHashedOptions == {Undef, Bool(FALSE), Bool(TRUE)}

NumberInputs == {Null, Undef, NaN, Infinity} \cup {Num(k) : k \in -1..MaxText}

NumberOptionsSet ==
  {NumberOptions(Undef, min, Undef, neg, zero) :
     min \in {Undef, Num(1)}, neg \in {Undef, Bool(FALSE)}, zero \in {Undef, Bool(FALSE)}}

BooleanInputs ==
  {Null, Undef, Bool(TRUE), Bool(FALSE), Num(0), Num(1),
   Chars(<<"T", "R", "U", "E">>), Chars(<<" ", "y", "e", "s">>), Chars(<<"n", "o">>)}

\* The construction that vo records: the class, its arguments, and how the
\* constructor ended.
Constructed(cls, input, options, out) ==
  [op |-> cls, input |-> input, options |-> options, threw |-> out.threw,
   x |-> out.x, value |-> out.value]

NewUserPassword ==
  /\ \E value \in PasswordInputs, isHashed \in IsHashedOptions :
       vo' = Constructed("UserPassword", value, PasswordOptions(isHashed),
                         UserPassword(FirstFree, value, PasswordOptions(isHashed)))
  /\ UNCHANGED OutsideVO

NewSecurityUserPassword ==
  /\ \E value \in PasswordInputs, isHashed \in IsHashedOptions :
       vo' = Constructed("SecurityUserPassword", value, PasswordOptions(isHashed),
                         SecurityUserPassword(FirstFree, value, PasswordOptions(isHashed)))
  /\ UNCHANGED OutsideVO

NewNumberValueObject ==
  /\ \E value \in NumberInputs, options \in NumberOptionsSet :
       vo' = Constructed("NumberValueObject", value, options,
                         NumberValueObject(FirstFree, NewObject("NumberValueObject"),
                                           value, options))
  /\ UNCHANGED OutsideVO

NewUserStatus ==
  /\ \E value \in BooleanInputs :
       vo' = Constructed("UserStatus", value, PasswordOptions(Undef),
                         UserStatus(FirstFree, value))
  /\ UNCHANGED OutsideVO

NewUserActive ==
  /\ \E value \in BooleanInputs :
       vo' = Constructed("UserActive", value, PasswordOptions(Undef),
                         UserActive(FirstFree, value))
  /\ UNCHANGED OutsideVO

NextVO ==
  \/ NewUserPassword
  \/ NewSecurityUserPassword
  \/ NewNumberValueObject
  \/ NewUserStatus
  \/ NewUserActive

\* The program constructs value objects, one after the other.
SpecVO == Init /\ [][NextVO]_vars

(* ----------------------- ResultException.fromError --------------------- *)

\* The errors handed to fromError: ResultExceptions and generic Errors.
ErrorInputs ==
  {ThrownRex(E1), ThrownRex(E2)}
    \cup {ThrownVal(Err(n, m)) : n \in {"Error", "TypeError"}, m \in {"boom", ""}}

\* fromError(error, type) on an input error.
FromError ==
  /\ \E error \in ErrorInputs, type \in ErrorType :
       LET out == fromError(FirstFree, error, type)
       IN exc' = [op |-> "fromError", error |-> error, type |-> type, out |-> out,
                  first |-> NoError,
                  next |-> IF out.ref = FirstFree THEN FirstFree + 1 ELSE FirstFree]
  /\ UNCHANGED OutsideException

\* fromError(e, type) on the exception e that fromError returned.
FromErrorAgain ==
  /\ exc.op = "fromError"
  /\ \E type \in ErrorType :
       LET out == fromError(exc.next, ThrownRex(exc.out), type)
       IN exc' = [op |-> "again", error |-> exc.error, type |-> type, out |-> out,
                  first |-> exc.out,
                  next |-> IF out.ref = exc.next THEN exc.next + 1 ELSE exc.next]
  /\ UNCHANGED OutsideException

NextException ==
  \/ FromError
  \/ FromErrorAgain

SpecException == Init /\ [][NextException]_vars

(* ------------------------- onSuccess, onFailure ------------------------ *)

\* What a hook hands back: the Result it returns, how often it called the
\* action and with what argument, and whether an exception left the method.
HookDone(r, calls, arg, escaped) ==
  [r |-> r, calls |-> calls, arg |-> arg, escaped |-> escaped]

\* onSuccess that lets the exception of the action through.
onSuccessPropagates(this, action) ==
  IF isSuccess(this)
  THEN HookDone(this, 1, getValue(this).val, action.kind = "throw")
  ELSE HookDone(this, 0, Undef, FALSE)

\* Result.onSuccess(action): the catch logs and goes on.
onSuccess(this, action) ==
  IF isSuccess(this)
  THEN HookDone(this, 1, getValue(this).val, FALSE)
  ELSE HookDone(this, 0, Undef, FALSE)

\* Result.onFailure(action): the catch logs and goes on.
onFailure(this, action) ==
  IF isFailure(this)
  THEN HookDone(this, 1, Num(getError(this).error.ref), FALSE)
  ELSE HookDone(this, 0, Undef, FALSE)

\* The Results the hooks are called on.
HookResults ==
  {success(v) : v \in Values} \cup {failure(e) : e \in InputErrors}
    \cup {fail(FirstFree, type, "failed", NoOptions) : type \in ErrorType}

\* The actions handed to the hooks: one that returns, and throwing ones.
HookActions == {Returns(Undef)} \cup {Throws(x) : x \in ThrownValues}

Hooked(op, recv, action, d) ==
  /\ hook' = [op |-> op, recv |-> recv, action |-> action, r |-> d.r,
              calls |-> d.calls, arg |-> d.arg, escaped |-> d.escaped]
  /\ UNCHANGED OutsideHook

OnSuccess ==
  \E r \in HookResults, action \in HookActions :
    Hooked("onSuccess", r, action, onSuccess(r, action))

OnFailure ==
  \E r \in HookResults, action \in HookActions :
    Hooked("onFailure", r, action, onFailure(r, action))

NextHook ==
  \/ OnSuccess
  \/ OnFailure

SpecHook == Init /\ [][NextHook]_vars

(* ----------------------- a validation accumulator ---------------------- *)

\* Most issues one accumulator is given.
MaxIssues == 3

\* The issues reported; metadata is optional.
IssueInputs ==
  {Issue("required", "name", <<>>), Issue("too short", "name", <<1, 2>>),
   Issue("required", "email", <<>>)}

EntityNames == {"User", "UserName"}

\* The exception thrown last after this._errors.push(error): the push is on
\* the array object, which is also metadata.errors of the exception while
\* the two are shared.
Pushed(thrown, shared, errors) ==
  IF shared THEN [thrown EXCEPT !.metadata.errors = errors] ELSE thrown

\* The accumulator after a call: out is how the call ended, thrown and
\* shared the exception thrown last and whether it still shares the array.
\* throwIfHasErrors hands this._errors itself to the exception it throws.
Accumulated(op, errors, since, got, out, thrown, shared) ==
  /\ acc' = [op |-> op, errors |-> errors, since |-> since, got |-> got,
             threw |-> out.threw, x |-> out.x,
             thrown |-> IF out.threw THEN out.x.rex ELSE thrown,
             shared |-> out.threw \/ shared,
             atThrow |-> IF out.threw THEN errors ELSE acc.atThrow]
  /\ UNCHANGED OutsideValidation

ReportError ==
  /\ Len(acc.errors) < MaxIssues
  /\ \E i \in IssueInputs :
       Accumulated("reportError",
                   reportError(acc.errors, i.message, i.property, i.meta),
                   Append(acc.since, i), <<>>, Fine(Undef, <<>>),
                   Pushed(acc.thrown, acc.shared,
                          reportError(acc.errors, i.message, i.property, i.meta)),
                   acc.shared)

\* combineWith(handler), handler holding the issues others: this._errors
\* becomes a new array when the handler has issues.
CombineWith ==
  \E others \in SeqsUpTo(IssueInputs, 2) :
    /\ Len(acc.errors) + Len(others) <= MaxIssues
    /\ Accumulated("combineWith", combineWith(acc.errors, others),
                   acc.since \o others, <<>>, Fine(Undef, <<>>),
                   acc.thrown, acc.shared /\ ~hasErrors(others))

\* clearErrors(): this._errors becomes a new array.
ClearErrors ==
  Accumulated("clearErrors", clearErrors(acc.errors), <<>>, <<>>, Fine(Undef, <<>>),
              acc.thrown, FALSE)

GetErrors ==
  Accumulated("getErrors", acc.errors, acc.since, getErrors(acc.errors),
              Fine(Undef, <<>>), acc.thrown, acc.shared)

ThrowIfHasErrors ==
  \E name \in EntityNames :
    Accumulated("throwIfHasErrors", acc.errors, acc.since, <<>>,
                throwIfHasErrors(FirstFree, acc.errors, name, Undef),
                acc.thrown, acc.shared)

NextValidation ==
  \/ ReportError
  \/ CombineWith
  \/ ClearErrors
  \/ GetErrors
  \/ ThrowIfHasErrors

SpecValidation == Init /\ [][NextValidation]_vars

(* ---------------------------- UUIDv7: the state ------------------------ *)

\* What Date.now() returns.
Clock == {0, 1, 255, 65536, 19088743, 2147483647}

\* What the random sources return: a text of n equal digits, and a variant.
RandomDigits == {"0", "f"}

RandomHex(n) == {[i \in 1..n |-> d] : d \in RandomDigits}

VariantChars == {"8", "9", "a", "b"}

\* Texts handed to parse that are no identifiers.
BadIds == {<<>>, <<"n", "o">>}

UUIDStep(op, a, b, now, text, parsed, cmp) ==
  /\ uid' = [op |-> op, now |-> now, a |-> a, b |-> b, text |-> text,
             parsed |-> parsed, cmp |-> cmp]
  /\ UNCHANGED OutsideUUID

\* The program generates its first identifier.
Generate ==
  \E now \in Clock, randA \in RandomHex(3), variant \in VariantChars,
     randB \in RandomHex(3), randC \in RandomHex(12) :
    /\ uid.op = "none"
    /\ UUIDStep("generate", generate(now, randA, variant, randB, randC),
                NoUid.b, now, <<>>, NoUid.parsed, 0)

\* parse on the text of the identifier generated, or on another text.
Parse ==
  /\ uid.op = "generate"
  /\ \E text \in {uid.a.value} \cup BadIds :
       UUIDStep("parse", uid.a, uid.b, uid.now, text, parse(text), 0)

\* A second identifier is generated.
GenerateOther ==
  /\ uid.op = "generate"
  /\ \E now \in Clock, randA \in RandomHex(3), variant \in VariantChars,
        randB \in RandomHex(3), randC \in RandomHex(12) :
       UUIDStep("generateOther", uid.a,
                generate(now, randA, variant, randB, randC), uid.now, <<>>,
                NoUid.parsed, 0)

CompareTo ==
  /\ uid.op = "generateOther"
  /\ UUIDStep("compareTo", uid.a, uid.b, uid.now, <<>>, NoUid.parsed,
              compareTo(uid.a, uid.b))

NextUUID ==
  \/ Generate
  \/ Parse
  \/ GenerateOther
  \/ CompareTo

SpecUUID == Init /\ [][NextUUID]_vars

(* ----------------------- UserPassword: hash, compare ------------------- *)

\* A password value object that exists: the class it was made by, its value
\* (the characters) and its flag. The class is "UserPassword" (context/domain),
\* "SecurityUserPassword" (contexts/security) or "SharedUserPassword" (the
\* class whose hash and compare take the hashing functions as arguments).
Password(class, value, hashed) ==
  [class |-> class, value |-> value, isHashed |-> hashed]

\* bcrypt.hash and bcrypt.compare, as far as the program depends on them:
\* a hash starts with the bcrypt prefix, and compare holds for the hash of
\* the text and for nothing else.
bcrypt_hash(plain) == HashPrefix \o plain

bcrypt_compare(plain, hashed) == hashed = bcrypt_hash(plain)

\* How a method of a value object or of the entity ends: it returns val, or
\* it throws (an async method rejects with) x.
Returned(val) == [threw |-> FALSE, x |-> ThrownVal(Undef), val |-> val]

Raised(x) == [threw |-> TRUE, x |-> x, val |-> Undef]

\* UserPassword.compare(plainTextPassword) of context/domain.
UserPassword_compare(this, plainTextPassword) ==
  IF ~this.isHashed
  THEN Raised(ThrownVal(Err("Error",
         "No se puede comparar con una contraseña que no está hasheada")))
  ELSE Returned(Bool(bcrypt_compare(plainTextPassword, this.value)))

\* metadata: { password: this.value, plainTextPassword }, next to the keys the
\* kernel writes, which it leaves out.
CompareMeta(password, plainTextPassword) ==
  [originalError |-> Undef, name |-> Undef, errorType |-> Undef, errors |-> <<>>,
   password |-> password, plainTextPassword |-> plainTextPassword]

\* UserPassword.compare(plainTextPassword) of contexts/security; the
\* exception is allocated at ref.
SecurityUserPassword_compare(ref, this, plainTextPassword) ==
  IF ~this.isHashed
  THEN Raised(ThrownRex(NewResultException(ref, "DOMAIN",
         "No se puede comparar con una contraseña que no está hasheada",
         Options(Str("PASSWORD_NOT_HASHED"), Num(400), Str("UserPassword.compare"),
                 CompareMeta(this.value, plainTextPassword), Bool(TRUE)))))
  ELSE Returned(Bool(bcrypt_compare(plainTextPassword, this.value)))

\* UserPassword.compare(plainPassword, compareFunction) of the class with
\* fromHashed; compareFunction is bcrypt's.
SharedUserPassword_compare(this, plainPassword) ==
  IF ~this.isHashed
  THEN Returned(Bool(this.value = plainPassword))
  ELSE Returned(Bool(bcrypt_compare(plainPassword, this.value)))

\* this.compare(plain): the method of the class of `this`.
compare(ref, this, plain) ==
  IF this.class = "UserPassword" THEN UserPassword_compare(this, plain)
  ELSE IF this.class = "SecurityUserPassword"
  THEN SecurityUserPassword_compare(ref, this, plain)
  ELSE SharedUserPassword_compare(this, plain)

\* What `new C(...)` hands to the method that called it: the value of the
\* instance made, or what the constructor threw.
New(made) == IF made.threw THEN Raised(made.x) ELSE Returned(made.value)

\* return new UserPassword(hashedPassword, { isHashed: true }), made being how
\* the constructor ended.
Hashed(class, made) ==
  IF made.threw THEN Raised(made.x)
  ELSE Returned(Password(class, made.value.arr, TRUE))

\* UserPassword.hash() of context/domain and contexts/security: the new
\* instance is made by the constructor of the class.
hash(ref, this) ==
  IF this.isHashed
  THEN Returned(this)
  ELSE Hashed(this.class,
         IF this.class = "UserPassword"
         THEN UserPassword(ref, Chars(bcrypt_hash(this.value)),
                           PasswordOptions(Bool(TRUE)))
         ELSE SecurityUserPassword(ref, Chars(bcrypt_hash(this.value)),
                                   PasswordOptions(Bool(TRUE))))

PasswordClasses == {"UserPassword", "SecurityUserPassword", "SharedUserPassword"}

\* "Abcdef1!", "Bcdefg2$", "weak", "Abcdef1.", and a text that starts like a
\* hash.
PlainTexts ==
  {<<"A", "b", "c", "d", "e", "f", "1", "!">>,
   <<"B", "c", "d", "e", "f", "g", "2", "$">>,
   <<"w", "e", "a", "k">>,
   <<"A", "b", "c", "d", "e", "f", "1", ".">>,
   HashPrefix \o <<"w", "e", "a", "k">>}

\* The passwords that exist: plain ones, and the hashes of plain ones.
Passwords ==
  {Password(c, t, FALSE) : c \in PasswordClasses, t \in PlainTexts}
    \cup {Password(c, bcrypt_hash(t), TRUE) : c \in PasswordClasses, t \in PlainTexts}

\* password.compare(plain) on a password that exists.
Compare ==
  /\ \E this \in Passwords, plain \in PlainTexts :
       pw' = [op |-> "compare", this |-> this, plain |-> plain,
              out |-> compare(FirstFree, this, plain)]
  /\ UNCHANGED OutsidePassword

\* ValueObject.toString(): String(this.value), the value being a string.
ValueObject_toString(this) == Chars(this.value)

\* ValueObject.toJSON(): the raw value.
ValueObject_toJSON(this) == Chars(this.value)

\* The object {isHashed: flag}.
IsHashedObject(flag) == JSV("object", "isHashed", "", IF flag THEN 1 ELSE 0, <<>>)

\* UserPassword.toString() of context/domain and contexts/security.
UserPassword_toString(this) == Str("[PROTECTED PASSWORD]")

\* UserPassword.toJSON() of context/domain and contexts/security.
UserPassword_toJSON(this) == IsHashedObject(this.isHashed)

\* this.toString(): the class with fromHashed overrides nothing and inherits
\* the method of ValueObject.
toString(this) ==
  IF this.class \in {"UserPassword", "SecurityUserPassword"}
  THEN UserPassword_toString(this)
  ELSE ValueObject_toString(this)

\* this.toJSON()
toJSON(this) ==
  IF this.class \in {"UserPassword", "SecurityUserPassword"}
  THEN UserPassword_toJSON(this)
  ELSE ValueObject_toJSON(this)

\* String(password) or `${password}` on a password that exists.
CallToString ==
  /\ \E this \in Passwords :
       pw' = [op |-> "toString", this |-> this, plain |-> <<>>,
              out |-> Returned(toString(this))]
  /\ UNCHANGED OutsidePassword

\* JSON.stringify(password) on a password that exists.
CallToJSON ==
  /\ \E this \in Passwords :
       pw' = [op |-> "toJSON", this |-> this, plain |-> <<>>,
              out |-> Returned(toJSON(this))]
  /\ UNCHANGED OutsidePassword

NextPassword ==
  \/ Compare
  \/ CallToString
  \/ CallToJSON

\* The program compares texts with passwords, one call after the other.
SpecPassword == Init /\ [][NextPassword]_vars

(* -------------------------------- policies ----------------------------- *)

\* The options every policy gives to Result.fail: a code and a source.
PolicyOptions(code, source) ==
  Options(Str(code), Undef, Str(source), EmptyMeta, Undef)

\* canChangeEmail that looks at the email before it looks at the flag.
canChangeEmailSameFirst(ref, user, newEmail) ==
  IF user.email = newEmail
  THEN fail(ref, "DOMAIN", "El nuevo email debe ser diferente al actual",
            PolicyOptions("SAME_EMAIL_UPDATE", "domain.policy.user-update"))
  ELSE IF ~user.active
  THEN fail(ref, "DOMAIN", "No se puede cambiar el email de un usuario inactivo",
            PolicyOptions("INACTIVE_USER_UPDATE", "domain.policy.user-update"))
  ELSE success(Undef)

\* UserUpdatePolicy.canChangeEmail(user, newEmail); user.isActive is
\* user.active, user.email.value is user.email.
canChangeEmail(ref, user, newEmail) ==
  IF ~user.active
  THEN fail(ref, "DOMAIN", "No se puede cambiar el email de un usuario inactivo",
            PolicyOptions("INACTIVE_USER_UPDATE", "domain.policy.user-update"))
  ELSE IF user.email = newEmail
  THEN fail(ref, "DOMAIN", "El nuevo email debe ser diferente al actual",
            PolicyOptions("SAME_EMAIL_UPDATE", "domain.policy.user-update"))
  ELSE success(Undef)

\* UserUpdatePolicy.canChangeName(user, newName)
canChangeName(ref, user, newName) ==
  IF ~user.active
  THEN fail(ref, "DOMAIN", "No se puede cambiar el nombre de un usuario inactivo",
            PolicyOptions("INACTIVE_USER_UPDATE", "domain.policy.user-update"))
  ELSE IF user.name = newName
  THEN fail(ref, "DOMAIN", "El nuevo nombre debe ser diferente al actual",
            PolicyOptions("SAME_NAME_UPDATE", "domain.policy.user-update"))
  ELSE success(Undef)

\* userActivationPolicy.canActivate(user)
canActivate(ref, user) ==
  IF user.active
  THEN fail(ref, "DOMAIN", "No se puede activar un usuario que ya está activo",
            PolicyOptions("USER_ALREADY_ACTIVE", "domain.policy.user-activation"))
  ELSE success(Undef)

\* userActivationPolicy.canDeactivate(user)
canDeactivate(ref, user) ==
  IF ~user.active
  THEN fail(ref, "DOMAIN", "No se puede desactivar un usuario que ya está inactivo",
            PolicyOptions("USER_ALREADY_INACTIVE", "domain.policy.user-activation"))
  ELSE success(Undef)

\* PasswordPolicy.canChangePassword(currentPassword, plainTextCurrentPassword,
\* newPassword): the promise resolves to a Result, or rejects with what
\* compare threw.
canChangePassword(ref, currentPassword, plainTextCurrentPassword, newPassword) ==
  LET valid == compare(ref, currentPassword, plainTextCurrentPassword)
  IN IF valid.threw THEN Raised(valid.x)
     ELSE IF valid.val # Bool(TRUE)
     THEN Returned(fail(ref, "DOMAIN", "La contraseña actual es incorrecta",
            PolicyOptions("CURRENT_PASSWORD_INVALID", "domain.policy.password")))
     ELSE IF plainTextCurrentPassword = newPassword.value
     THEN Returned(fail(ref, "DOMAIN",
            "La nueva contraseña debe ser diferente a la actual",
            PolicyOptions("NEW_PASSWORD_SAME_AS_CURRENT", "domain.policy.password")))
     ELSE Returned(success(Undef))

(* ------------------------------ the User entity ------------------------ *)

\* A User: the values of its value objects (_name, _email, _active), its
\* _password, and the names of its pending domain events. The class is
\* "User" for the entity whose methods return a Result and "ContextUser"
\* for the entity of context/domain whose methods return void or a boolean.
User(class, name, email, password, active, events) ==
  [class |-> class, name |-> name, email |-> email, password |-> password,
   active |-> active, events |-> events]

\* How a method of the entity ends: it returns ret or throws x, and leaves
\* the entity as this.
Ended(this, ret) ==
  [threw |-> FALSE, x |-> ThrownVal(Undef), ret |-> ret, this |-> this]

Escaped(this, x) == [threw |-> TRUE, x |-> x, ret |-> Undef, this |-> this]

\* Entity.addDomainEvent: push
addDomainEvent(this, eventName) ==
  [this EXCEPT !.events = Append(@, eventName)]

\* User.registerUpdateEvent: new UserUpdatedEvent(this) is named 'user.updated'.
registerUpdateEvent(this) == addDomainEvent(this, "user.updated")

\* UserActive.activate() and deactivate() on the value object whose value is
\* value: the same instance, or one the constructor makes.
UserActive_activate(ref, value) ==
  IF value THEN Returned(Bool(TRUE)) ELSE New(UserActive(ref, Bool(TRUE)))

UserActive_deactivate(ref, value) ==
  IF ~value THEN Returned(Bool(FALSE)) ELSE New(UserActive(ref, Bool(FALSE)))

\* this._password = await newPassword.hash(); registerUpdateEvent(); return
\* ret, hashed being how hash() ended.
SetPassword(this, hashed, ret) ==
  IF hashed.threw THEN Escaped(this, hashed.x)
  ELSE Ended(registerUpdateEvent([this EXCEPT !.password = hashed.val]), ret)

\* this._active = (what activate() or deactivate() of the value object
\* ended in); registerUpdateEvent(); return ret.
SetActive(this, active, ret) ==
  IF active.threw THEN Escaped(this, active.x)
  ELSE Ended(registerUpdateEvent([this EXCEPT !.active = active.val.n = 1]), ret)

\* User.changeName(newName)
changeName(ref, this, newName) ==
  LET policyResult == canChangeName(ref, this, newName)
  IN IF isFailure(policyResult) THEN Ended(this, policyResult)
     ELSE Ended(registerUpdateEvent([this EXCEPT !.name = newName]),
                success(Undef))

\* User.changeEmail(newEmail)
changeEmail(ref, this, newEmail) ==
  LET policyResult == canChangeEmail(ref, this, newEmail)
  IN IF isFailure(policyResult) THEN Ended(this, policyResult)
     ELSE Ended(registerUpdateEvent([this EXCEPT !.email = newEmail]),
                success(Undef))

\* User.changePassword(currentPassword, newPassword)
changePassword(ref, this, currentPassword, newPassword) ==
  LET policyResult == canChangePassword(ref, this.password, currentPassword,
                                        newPassword)
  IN IF policyResult.threw THEN Escaped(this, policyResult.x)
     ELSE IF isFailure(policyResult.val) THEN Ended(this, policyResult.val)
     ELSE SetPassword(this, hash(ref, newPassword), success(Undef))

\* User.activate()
activate(ref, this) ==
  LET policyResult == canActivate(ref, this)
  IN IF isFailure(policyResult) THEN Ended(this, policyResult)
     ELSE SetActive(this, UserActive_activate(ref, this.active), success(Undef))

\* User.deactivate()
deactivate(ref, this) ==
  LET policyResult == canDeactivate(ref, this)
  IN IF isFailure(policyResult) THEN Ended(this, policyResult)
     ELSE SetActive(this, UserActive_deactivate(ref, this.active), success(Undef))

\* The entity of context/domain: changeName(newName): void
ContextUser_changeName(this, newName) ==
  Ended(registerUpdateEvent([this EXCEPT !.name = newName]), Undef)

\* changeEmail(newEmail): void
ContextUser_changeEmail(this, newEmail) ==
  Ended(registerUpdateEvent([this EXCEPT !.email = newEmail]), Undef)

\* changePassword(currentPassword, newPassword): Promise<boolean>
ContextUser_changePassword(ref, this, currentPassword, newPassword) ==
  LET valid == compare(ref, this.password, currentPassword)
  IN IF valid.threw THEN Escaped(this, valid.x)
     ELSE IF valid.val # Bool(TRUE) THEN Ended(this, Bool(FALSE))
     ELSE SetPassword(this, hash(ref, newPassword), Bool(TRUE))

\* activate(): void
ContextUser_activate(ref, this) ==
  IF this.active THEN Ended(this, Undef)
  ELSE SetActive(this, UserActive_activate(ref, this.active), Undef)

\* deactivate(): void
ContextUser_deactivate(ref, this) ==
  IF ~this.active THEN Ended(this, Undef)
  ELSE SetActive(this, UserActive_deactivate(ref, this.active), Undef)

(* ------------------------- the User entity: the state ------------------ *)

\* Most pending events of a user.
MaxEvents == 2

Names == {"Ana", "Luis"}

Emails == {"ana@mail.co", "luis@mail.co"}

\* The texts users have as passwords.
UserTexts ==
  {<<"A", "b", "c", "d", "e", "f", "1", "!">>,
   <<"B", "c", "d", "e", "f", "g", "2", "$">>}

\* The passwords handed to the entity: of the two classes with hash(), plain
\* or hashed.
UserPasswords ==
  {p \in Passwords :
     /\ p.class \in {"UserPassword", "SecurityUserPassword"}
     /\ p.value \in UserTexts \cup {bcrypt_hash(t) : t \in UserTexts}}

\* The arguments of a call; the ones a method does not take stay as in NoArgs.
Args(newName, newEmail, currentPassword, newPassword) ==
  [newName |-> newName, newEmail |-> newEmail,
   currentPassword |-> currentPassword, newPassword |-> newPassword]

NoArgs == Args("", "", <<>>, NoPw.this)

\* What usr records: the method called last, the entity before the call,
\* the arguments, and how the call ended.
Called(op, before, args, out) ==
  [op |-> op, before |-> before, args |-> args, threw |-> out.threw,
   x |-> out.x, ret |-> out.ret, this |-> out.this]

\* User.reconstitute(id, name, email, password, active): no event.
Reconstitute ==
  /\ usr.op = "none"
  /\ \E class \in {"User", "ContextUser"}, name \in Names, email \in Emails,
        password \in UserPasswords, active \in BOOLEAN :
       LET this == User(class, name, email, password, active, <<>>)
       IN usr' = Called("reconstitute", this, NoArgs, Ended(this, Undef))
  /\ UNCHANGED OutsideUser

CanCall == usr.op # "none" /\ Len(usr.this.events) < MaxEvents

ChangeName ==
  /\ CanCall
  /\ \E newName \in Names :
       usr' = Called("changeName", usr.this, [NoArgs EXCEPT !.newName = newName],
                 IF usr.this.class = "User"
                 THEN changeName(FirstFree, usr.this, newName)
                 ELSE ContextUser_changeName(usr.this, newName))
  /\ UNCHANGED OutsideUser

ChangeEmail ==
  /\ CanCall
  /\ \E newEmail \in Emails :
       usr' = Called("changeEmail", usr.this, [NoArgs EXCEPT !.newEmail = newEmail],
                 IF usr.this.class = "User"
                 THEN changeEmail(FirstFree, usr.this, newEmail)
                 ELSE ContextUser_changeEmail(usr.this, newEmail))
  /\ UNCHANGED OutsideUser

ChangePassword ==
  /\ CanCall
  /\ \E currentPassword \in UserTexts, newPassword \in UserPasswords :
       usr' = Called("changePassword", usr.this,
                 [NoArgs EXCEPT !.currentPassword = currentPassword,
                                !.newPassword = newPassword],
                 IF usr.this.class = "User"
                 THEN changePassword(FirstFree, usr.this, currentPassword, newPassword)
                 ELSE ContextUser_changePassword(FirstFree, usr.this,
                                                 currentPassword, newPassword))
  /\ UNCHANGED OutsideUser

Activate ==
  /\ CanCall
  /\ usr' = Called("activate", usr.this, NoArgs,
               IF usr.this.class = "User" THEN activate(FirstFree, usr.this)
               ELSE ContextUser_activate(FirstFree, usr.this))
  /\ UNCHANGED OutsideUser

Deactivate ==
  /\ CanCall
  /\ usr' = Called("deactivate", usr.this, NoArgs,
               IF usr.this.class = "User" THEN deactivate(FirstFree, usr.this)
               ELSE ContextUser_deactivate(FirstFree, usr.this))
  /\ UNCHANGED OutsideUser

\* canChangeEmail(user, newEmail) asked about the user, outside any method.
CanChangeEmail ==
  /\ CanCall
  /\ \E newEmail \in Emails :
       usr' = Called("canChangeEmail", usr.this,
                 [NoArgs EXCEPT !.newEmail = newEmail],
                 Ended(usr.this, canChangeEmail(FirstFree, usr.this, newEmail)))
  /\ UNCHANGED OutsideUser

NextUser ==
  \/ Reconstitute
  \/ ChangeName
  \/ ChangeEmail
  \/ ChangePassword
  \/ Activate
  \/ Deactivate
  \/ CanChangeEmail

\* A user is reconstituted, then its methods are called one after the other.
SpecUser == Init /\ [][NextUser]_vars

(* ---------------------- identifiers from timestamps -------------------- *)

\* 2^24, the weight of the high part of a timestamp.
TwoTo24 == 2^24

\* The timestamps handed to fromTimestamp: 0, 255, 2^31 - 1, 2^48 - 1, 2^48,
\* 2^48 + 1, 2^52 + 255, and the numbers 1.5 and -1.
TimestampArgs ==
  {TimestampArg(TRUE, FALSE, w) :
     w \in {Wide(0, 0), Wide(0, 255), Wide(127, TwoTo24 - 1),
            Wide(TwoTo24 - 1, TwoTo24 - 1), Wide(TwoTo24, 0), Wide(TwoTo24, 1),
            Wide(16 * TwoTo24, 255)}}
    \cup {TimestampArg(FALSE, FALSE, Wide(0, 1)), TimestampArg(TRUE, TRUE, Wide(0, 1))}

\* UUIDv7.fromTimestamp(timestamp)
FromTimestamp ==
  /\ \E timestamp \in TimestampArgs, randA \in RandomHex(3), variant \in VariantChars,
        randB \in RandomHex(3), randC \in RandomHex(12) :
       ts' = [NoTs EXCEPT !.op = "fromTimestamp", !.timestamp = timestamp,
                          !.made = fromTimestamp(timestamp, randA, variant, randB,
                                                 randC)]
  /\ UNCHANGED OutsideTimestamp

\* UUIDv7.parse(id.toString()) of the identifier made last.
ParseMade ==
  /\ ts.op = "fromTimestamp"
  /\ ~ts.made.threw
  /\ ts' = [ts EXCEPT !.op = "parse", !.parsed = parseWide(ts.made.id.value)]
  /\ UNCHANGED OutsideTimestamp

NextTimestamp ==
  \/ FromTimestamp
  \/ ParseMade

\* Identifiers are made from timestamps and parsed back.
SpecTimestamp == Init /\ [][NextTimestamp]_vars

(* --------------------------- identifier objects ------------------------ *)

\* String.prototype.toUpperCase on the characters of an identifier
toUpperCase(cs) ==
  [i \in 1..Len(cs) |->
     IF \E k \in 11..16 : HexDigits[k] = cs[i]
     THEN UpperHexDigits[(CHOOSE k \in 11..16 : HexDigits[k] = cs[i]) - 10]
     ELSE cs[i]]

\* The identifiers in use: generated at two times, with two random parts.
GeneratedIds ==
  {generate(now, randA, variant, randA, randC) :
     now \in {255, 19088743}, randA \in RandomHex(3), variant \in {"8", "a"},
     randC \in RandomHex(12)}

\* The texts handed to new UserID: none, the empty text, a text that is no
\* identifier, and identifiers as generated and in capital letters.
IdInputs ==
  {Undef, Chars(<<>>), Chars(<<"n", "o">>)}
    \cup {Chars(g.value) : g \in GeneratedIds}
    \cup {Chars(toUpperCase(g.value)) : g \in GeneratedIds}

\* new UserID(value): the first identifier.
NewUserID ==
  /\ idv.op = "none"
  /\ \E value \in IdInputs, generated \in GeneratedIds :
       idv' = [NoIdv EXCEPT !.op = "new", !.input = value,
                            !.a = IDValueObject(FirstFree, value, TRUE, generated)]
  /\ UNCHANGED OutsideID

\* new UserID(value): the second identifier.
NewOtherUserID ==
  /\ idv.op = "new"
  /\ ~idv.a.threw
  /\ \E value \in IdInputs, generated \in GeneratedIds :
       idv' = [idv EXCEPT !.op = "newOther",
                          !.b = IDValueObject(FirstFree, value, TRUE, generated)]
  /\ UNCHANGED OutsideID

\* a.equals(b) and a.compareTo(b)
EqualsAndCompareTo ==
  /\ idv.op = "newOther"
  /\ ~idv.b.threw
  /\ idv' = [idv EXCEPT !.op = "compare", !.eq = equals(idv.a, idv.b),
                        !.cmp = IDValueObject_compareTo(idv.a, idv.b)]
  /\ UNCHANGED OutsideID

NextID ==
  \/ NewUserID
  \/ NewOtherUserID
  \/ EqualsAndCompareTo

\* Two identifiers are made and compared.
SpecID == Init /\ [][NextID]_vars

(* ----------------------------- UserAggregate --------------------------- *)

\* Entity.getDomainEvents(): a copy of the pending events.
getDomainEvents(this) == this.events

\* Entity.clearEvents()
clearEvents(this) == [this EXCEPT !.events = <<>>]

\* The events are transferred and not cleared.
transferEventsKept(events, user) ==
  [events |-> events \o getDomainEvents(user), user |-> user]

\* this._user.getDomainEvents().forEach(event => this.addDomainEvent(event));
\* this._user.clearEvents(): the aggregate's events and its user afterwards.
transferEvents(events, user) ==
  [events |-> events \o getDomainEvents(user), user |-> clearEvents(user)]

\* resetPassword(newPassword): Promise<void> of the entity of context/domain.
ContextUser_resetPassword(ref, this, newPassword) ==
  SetPassword(this, hash(ref, newPassword), Undef)

\* The aggregate after a method that calls the entity and then transfers the
\* events when transfers holds; out is how the entity's method ended, and
\* what it throws escapes the aggregate's method before any transfer.
Operated(op, this, out, transfers) ==
  [op |-> op, threw |-> out.threw, ret |-> out.ret,
   user |-> IF out.threw \/ ~transfers THEN out.this
            ELSE transferEvents(this.events, out.this).user,
   events |-> IF out.threw \/ ~transfers THEN this.events
              ELSE transferEvents(this.events, out.this).events,
   emitted |-> this.emitted \o SubSeq(out.this.events, Len(this.user.events) + 1,
                                      Len(out.this.events))]

\* UserAggregate.changePassword: if (result) { transfer }.
OperatedIfTrue(op, this, out) == Operated(op, this, out, out.ret = Bool(TRUE))

\* Most events an aggregate holds.
MaxPending == 3

\* The users an aggregate is constructed with: just created (one event) or
\* reconstituted (none).
AggregateUsers ==
  {User("ContextUser", name, email, password, active, events) :
     name \in Names, email \in Emails,
     password \in {p \in UserPasswords : p.class = "UserPassword"},
     active \in BOOLEAN, events \in {<<>>, <<"user.created">>}}

\* new UserAggregate(user)
NewUserAggregate ==
  /\ agg.op = "none"
  /\ \E user \in AggregateUsers :
       agg' = [op |-> "constructor", threw |-> FALSE, ret |-> Undef,
               user |-> transferEvents(<<>>, user).user,
               events |-> transferEvents(<<>>, user).events,
               emitted |-> user.events]
  /\ UNCHANGED OutsideAggregate

CanOperate == agg.op # "none" /\ Len(agg.events) < MaxPending

AggregateChangeName ==
  /\ CanOperate
  /\ \E name \in Names :
       agg' = Operated("changeName", agg, ContextUser_changeName(agg.user, name), TRUE)
  /\ UNCHANGED OutsideAggregate

AggregateChangeEmail ==
  /\ CanOperate
  /\ \E email \in Emails :
       agg' = Operated("changeEmail", agg, ContextUser_changeEmail(agg.user, email),
                       TRUE)
  /\ UNCHANGED OutsideAggregate

AggregateChangePassword ==
  /\ CanOperate
  /\ \E currentPassword \in UserTexts,
        newPassword \in {p \in UserPasswords : p.class = "UserPassword"} :
       agg' = OperatedIfTrue("changePassword", agg,
                ContextUser_changePassword(FirstFree, agg.user, currentPassword,
                                           newPassword))
  /\ UNCHANGED OutsideAggregate

AggregateResetPassword ==
  /\ CanOperate
  /\ \E newPassword \in {p \in UserPasswords : p.class = "UserPassword"} :
       agg' = Operated("resetPassword", agg,
                ContextUser_resetPassword(FirstFree, agg.user, newPassword), TRUE)
  /\ UNCHANGED OutsideAggregate

AggregateActivate ==
  /\ CanOperate
  /\ agg' = Operated("activate", agg, ContextUser_activate(FirstFree, agg.user), TRUE)
  /\ UNCHANGED OutsideAggregate

AggregateDeactivate ==
  /\ CanOperate
  /\ agg' = Operated("deactivate", agg, ContextUser_deactivate(FirstFree, agg.user),
                     TRUE)
  /\ UNCHANGED OutsideAggregate

NextAggregate ==
  \/ NewUserAggregate
  \/ AggregateChangeName
  \/ AggregateChangeEmail
  \/ AggregateChangePassword
  \/ AggregateResetPassword
  \/ AggregateActivate
  \/ AggregateDeactivate

\* An aggregate is constructed, then its operations are called one after the
\* other.
SpecAggregate == Init /\ [][NextAggregate]_vars

(* -------------------------- registering a user ------------------------- *)

\* The text of an array of characters.
RECURSIVE Text(_)
Text(cs) == IF cs = <<>> THEN "" ELSE Head(cs) \o Text(Tail(cs))

\* error.message of a caught Error.
MessageOf(x) == IF IsResultException(x) THEN x.rex.message ELSE x.val.msg

\* ApplicationException.useCaseError(useCaseName, details)
useCaseError(ref, useCaseName, details) ==
  [NewResultException(ref, "APPLICATION",
     IF details # "" THEN "Error en caso de uso '" \o useCaseName \o "': " \o details
     ELSE "Error en caso de uso '" \o useCaseName \o "'",
     Options(Str("USE_CASE_ERROR"), Undef, Str("application"), EmptyMeta, Undef))
   EXCEPT !.name = "ApplicationException"]

\* securityException.emailAlreadyInUse(email)
emailAlreadyInUse(ref, email) ==
  NewResultException(ref, "CONFLICT", "El email " \o Text(email.arr) \o " ya está en uso",
    Options(Str("EMAIL_ALREADY_IN_USE"), Undef, Str("security-domain"), EmptyMeta,
            Undef))

\* The user User.create returns, hashedPassword being how password.hash()
\* ended: the new user has a 'user.created' event.
Created(name, email, hashedPassword, active) ==
  IF hashedPassword.threw THEN Raised(hashedPassword.x)
  ELSE Returned(addDomainEvent(
         User("User", name, email, hashedPassword.val, active, <<>>),
         "user.created"))

\* User.create(id, name, email, password, active): the password is hashed.
User_create(ref, name, email, password, active) ==
  Created(name, email, hash(ref, password), active)

\* The body of UserFactory.createAggregate once its four value objects are
\* constructed, in the order name, email, password, active: the first
\* constructor that threw ends it.
createAggregateOf(ref, userName, userEmail, userPassword, userActive) ==
  IF userName.threw THEN Raised(userName.x)
  ELSE IF userEmail.threw THEN Raised(userEmail.x)
  ELSE IF userPassword.threw THEN Raised(userPassword.x)
  ELSE IF userActive.threw THEN Raised(userActive.x)
  ELSE User_create(ref, Text(userName.value.arr), Text(userEmail.value.arr),
                   Password("UserPassword", userPassword.value.arr, FALSE),
                   userActive.value.n = 1)

\* UserFactory.createAggregate({name, email, password, active: true}); no id
\* is given, and new UserID() makes one.
createAggregate(ref, name, email, password) ==
  createAggregateOf(ref, UserName(ref, name), UserEmail(ref, email),
                    UserPassword(ref, password, PasswordOptions(Undef)),
                    UserActive(ref, Bool(TRUE)))

\* The body of userFactory.create once its value objects are constructed.
userFactory_createOf(userName, userEmail, userPassword) ==
  IF userName.threw THEN Raised(userName.x)
  ELSE IF userEmail.threw THEN Raised(userEmail.x)
  ELSE IF userPassword.threw THEN Raised(userPassword.x)
  ELSE Returned(User("UserEntity", Text(userName.value.arr),
                     Text(userEmail.value.arr),
                     Password("SharedUserPassword", userPassword.value.arr, FALSE),
                     TRUE, <<>>))

\* userFactory.create(name, email, password) of the security domain: the
\* value objects are made in this order, and what a constructor throws
\* escapes.
userFactory_create(ref, name, email, password) ==
  userFactory_createOf(SecurityUserName(ref, name), SecurityUserEmail(ref, email),
                       SharedUserPassword(ref, password, Undef))

\* How a registration ends: the Result, and the operations of the repository
\* invoked on the way, in order.
Registered(out, calls) == [out |-> out, calls |-> calls]

\* The callback handed to tryAsync, created being how createAggregate ended.
CreateCallback(created) ==
  IF created.threw THEN Throws(created.x) ELSE Returns(created.val)

\* The end of execute, from userAggregateResult on: a failed creation is
\* returned, otherwise the user is saved.
executeSave(userAggregateResult, saveResult) ==
  IF isFailure(userAggregateResult)
  THEN Registered(failure(getError(userAggregateResult).error), <<"exists">>)
  ELSE IF isFailure(saveResult)
  THEN Registered(failure(getError(saveResult).error), <<"exists", "save">>)
  ELSE Registered(success(Str("Usuario registrado exitosamente")),
                  <<"exists", "save">>)

\* The body of execute, userEmail being how new UserEmail(request.email)
\* ended.
executeOf(ref, request, existsResult, saveResult, userEmail) ==
  IF userEmail.threw
  THEN Registered(failure(useCaseError(ref, "RegisterUserCommand",
                    IF IsError(userEmail.x) THEN MessageOf(userEmail.x)
                    ELSE "Error desconocido")), <<>>)
  ELSE IF isFailure(existsResult)
  THEN Registered(failure(getError(existsResult).error), <<"exists">>)
  ELSE IF getValue(existsResult).val = Bool(TRUE)
  THEN Registered(fail(ref, "CONFLICT", "El email ya está registrado",
                    PolicyOptions("EMAIL_ALREADY_EXISTS", "register-user.command")),
                  <<"exists">>)
  ELSE executeSave(
         tryAsync(ref, CreateCallback(createAggregate(ref, request.name,
                         request.email, request.password)), NoSelector).r,
         saveResult)

\* RegisterUserCommand.execute(request); existsResult and saveResult are what
\* the repository answers when it is asked.
execute(ref, request, existsResult, saveResult) ==
  executeOf(ref, request, existsResult, saveResult, UserEmail(ref, request.email))

\* The Result of the catch block of registerUser.
registerUserCaught(ref, x) ==
  IF IsError(x)
  THEN fail(ref, "DOMAIN", "Error al registrar el usuario: " \o MessageOf(x),
            Options(Undef, Undef, Str("security-domain"), EmptyMeta, Undef))
  ELSE fail(ref, "DOMAIN", "Error desconocido al registrar el usuario",
            Options(Undef, Undef, Str("security-domain"), EmptyMeta, Undef))

\* The end of registerUser, user being how userFactory.create ended.
registerUserSave(ref, user, saveResult) ==
  IF user.threw
  THEN Registered(registerUserCaught(ref, user.x), <<"existsByEmail">>)
  ELSE IF isFailure(saveResult)
  THEN Registered(failure(getError(saveResult).error), <<"existsByEmail", "save">>)
  ELSE Registered(success(getValue(saveResult).val), <<"existsByEmail", "save">>)

\* The body of registerUser, userEmail being how new UserEmail(email) ended.
registerUserOf(ref, name, email, password, existsResult, saveResult, userEmail) ==
  IF userEmail.threw
  THEN Registered(registerUserCaught(ref, userEmail.x), <<>>)
  ELSE IF isFailure(existsResult)
  THEN Registered(failure(getError(existsResult).error), <<"existsByEmail">>)
  ELSE IF getValue(existsResult).val = Bool(TRUE)
  THEN Registered(failure(emailAlreadyInUse(ref, email)), <<"existsByEmail">>)
  ELSE registerUserSave(ref, userFactory_create(ref, name, email, password),
                        saveResult)

\* SecurityDomain.registerUser(name, email, password)
registerUser(ref, name, email, password, existsResult, saveResult) ==
  registerUserOf(ref, name, email, password, existsResult, saveResult,
                 SecurityUserEmail(ref, email))

\* "Ed", "E", "Ed  da", "-Ed"
NameInputs ==
  {Chars(cs) : cs \in {<<"E", "d">>, <<"E">>, <<"E", "d", " ", " ", "d", "a">>,
                       <<"-", "E", "d">>}}

\* "a@b.ca", "abc", "a@b", "A@b.ca"
EmailInputs ==
  {Chars(cs) : cs \in {<<"a", "@", "b", ".", "c", "a">>, <<"a", "b", "c">>,
                       <<"a", "@", "b">>, <<"A", "@", "b", ".", "c", "a">>}}

\* The passwords a registration is asked with: PlainTexts holds "weak".
RegisterPasswords == {Chars(cs) : cs \in PlainTexts}

\* What the repository answers to exists / existsByEmail and to save.
ExistsAnswers == {success(Bool(FALSE)), success(Bool(TRUE)), failure(E2)}

SaveAnswers == {success(Undef), failure(E2)}

Request(name, email, password) ==
  [name |-> name, email |-> email, password |-> password]

\* What is kept of a registration: the operation, what it was asked with,
\* what the repository answered, and how it ended.
Command(op, request, existsResult, saveResult, done) ==
  [op |-> op, request |-> request, exists |-> existsResult, save |-> saveResult,
   out |-> done.out, calls |-> done.calls]

Execute ==
  /\ \E name \in NameInputs, email \in EmailInputs, password \in RegisterPasswords,
        existsResult \in ExistsAnswers, saveResult \in SaveAnswers :
       cmd' = Command("execute", Request(name, email, password), existsResult,
                saveResult,
                execute(FirstFree, Request(name, email, password), existsResult,
                        saveResult))
  /\ UNCHANGED OutsideRegister

RegisterUser ==
  /\ \E name \in NameInputs, email \in EmailInputs, password \in RegisterPasswords,
        existsResult \in ExistsAnswers, saveResult \in SaveAnswers :
       cmd' = Command("registerUser", Request(name, email, password),
                existsResult, saveResult,
                registerUser(FirstFree, name, email, password, existsResult,
                             saveResult))
  /\ UNCHANGED OutsideRegister

NextRegister ==
  \/ Execute
  \/ RegisterUser

\* Users are registered, one request after the other.
SpecRegister == Init /\ [][NextRegister]_vars

(* --------------------------------- login ------------------------------- *)

\* How a login ends: the Result, and the operations of the repository, of
\* the aggregate and of the token service invoked on the way, in order.
LoggedIn(out, calls) == [out |-> out, calls |-> calls]

\* What findByEmail resolves with inside its Result: null, or an aggregate.
NotFound == [null |-> TRUE, user |-> NoUser.this]

Found(user) == [null |-> FALSE, user |-> user]

\* JwtTokenService.generateToken(payload), signed being how jwtService.sign
\* ended.
generateToken(ref, signed) ==
  IF signed.threw
  THEN fail(ref, "INFRASTRUCTURE",
            "Error al generar token JWT: "
              \o (IF IsError(signed.x) THEN MessageOf(signed.x)
                  ELSE "Error desconocido"),
            PolicyOptions("JWT_GENERATE_ERROR", "jwt-token.service"))
  ELSE success(signed.val)

\* The catch block of LoginCommand.execute reporting a success.
LoginCaughtAsSuccess(ref, x, calls) == LoggedIn(success(Str("")), calls)

\* The catch block of LoginCommand.execute.
LoginCaught(ref, x, calls) ==
  LoggedIn(failure(useCaseError(ref, "LoginCommand",
             IF IsError(x) THEN MessageOf(x) ELSE "Error desconocido")), calls)

\* The end of execute, from tokenResult on; the response carries the token.
LoginToken(tokenResult) ==
  IF isFailure(tokenResult)
  THEN LoggedIn(failure(getError(tokenResult).error),
                <<"findByEmail", "isActive", "verifyPassword", "generateToken">>)
  ELSE LoggedIn(success(getValue(tokenResult).val),
                <<"findByEmail", "isActive", "verifyPassword", "generateToken">>)

\* The part of execute from passwordValid on, passwordValid being how
\* userAggregate.verifyPassword(request.password) ended.
LoginVerified(ref, passwordValid, signed) ==
  IF passwordValid.threw
  THEN LoginCaught(ref, passwordValid.x, <<"findByEmail", "isActive", "verifyPassword">>)
  ELSE IF passwordValid.val # Bool(TRUE)
  THEN LoggedIn(fail(ref, "UNAUTHORIZED", "Credenciales inválidas",
                  PolicyOptions("INVALID_CREDENTIALS", "login.command")),
                <<"findByEmail", "isActive", "verifyPassword">>)
  ELSE LoginToken(generateToken(ref, signed))

\* The body of LoginCommand.execute, userEmail being how
\* new UserEmail(request.email) ended.
LoginCommand_executeOf(ref, request, userResult, signed, userEmail) ==
  IF userEmail.threw THEN LoginCaught(ref, userEmail.x, <<>>)
  ELSE IF isFailure(userResult)
  THEN LoggedIn(failure(getError(userResult).error), <<"findByEmail">>)
  ELSE IF getValue(userResult).val.null
  THEN LoggedIn(fail(ref, "UNAUTHORIZED", "Credenciales inválidas",
                  PolicyOptions("INVALID_CREDENTIALS", "login.command")),
                <<"findByEmail">>)
  ELSE IF ~getValue(userResult).val.user.active
  THEN LoggedIn(fail(ref, "UNAUTHORIZED", "El usuario está inactivo",
                  PolicyOptions("USER_INACTIVE", "login.command")),
                <<"findByEmail", "isActive">>)
  ELSE LoginVerified(ref,
         compare(ref, getValue(userResult).val.user.password, request.password),
         signed)

\* LoginCommand.execute(request); userResult and signed are what the
\* repository and jwtService.sign answer when they are asked.
LoginCommand_execute(ref, request, userResult, signed) ==
  LoginCommand_executeOf(ref, request, userResult, signed,
                         UserEmail(ref, request.email))

\* The aggregates a repository holds: Ana, active or not, whose password is
\* the hash of "Abcdef1!" or that text itself.
LoginUsers ==
  {User("ContextUser", "Ana", "a@b.ca", password, active, <<>>) :
     password \in {Password("UserPassword",
                             bcrypt_hash(<<"A", "b", "c", "d", "e", "f", "1", "!">>),
                             TRUE),
                    Password("UserPassword",
                             <<"A", "b", "c", "d", "e", "f", "1", "!">>, FALSE)},
     active \in BOOLEAN}

\* What the repository answers to findByEmail.
FindAnswers ==
  {failure(E2), success(NotFound)} \cup {success(Found(user)) : user \in LoginUsers}

\* How jwtService.sign ends.
SignAnswers ==
  {Returned(Str("token")),
   Raised(ThrownVal(Err("Error", "secretOrPrivateKey must have a value")))}

\* What is kept of a login.
LoginDone(request, userResult, signed, done) ==
  [op |-> "execute", request |-> request, users |-> userResult, signed |-> signed,
   out |-> done.out, calls |-> done.calls]

Login ==
  /\ \E email \in EmailInputs, password \in PlainTexts, userResult \in FindAnswers,
        signed \in SignAnswers :
       lgn' = LoginDone([email |-> email, password |-> password], userResult, signed,
                LoginCommand_execute(FirstFree,
                  [email |-> email, password |-> password], userResult, signed))
  /\ UNCHANGED OutsideLogin

\* Users log in, one request after the other.
SpecLogin == Init /\ [][Login]_vars

(* ---------------------- properties of the Result kernel ---------------- *)

\* C1: every Result the program holds is in exactly one variant: isSuccess
\* and isFailure disagree; a success has no error and getValue returns; a
\* failure has a ResultException, no value, and getError returns;
\* success(v) is a success whose getValue is v, and failure(e) is a failure
\* whose getError is that same instance e.
ResultVariantInv ==
  last.op # "none" =>
    /\ isSuccess(res) # isFailure(res)
    /\ isSuccess(res) =>
         /\ res.error = NoError
         /\ ~getValue(res).threw
         /\ getError(res).threw
    /\ isFailure(res) =>
         /\ res.error # NoError
         /\ res.error.name = "ResultException"
         /\ res.value = Undef
         /\ ~getError(res).threw
         /\ getValue(res).threw
    /\ last.op = "success" =>
         isSuccess(res) /\ getValue(res).val = last.cb.out
    /\ last.op = "failure" =>
         isFailure(res) /\ getError(res).error = last.cb.x.rex

\* A failure reached through a chain: try, then two combinators, the last a
\* map.
ResultVariantWitness ==
  /\ Len(log) > 2
  /\ log[1].op = "try"
  /\ last.op = "map"
  /\ isFailure(res)

\* C2: map and flatMap on a failed Result do not call fn and yield a failure
\* with the same error instance; in a chain, no map / flatMap callback after
\* the first failing step runs.
NoCallbackAfterFailure ==
  /\ (last.op \in {"map", "flatMap"} /\ isFailure(last.recv)) =>
       /\ ~last.invoked
       /\ isFailure(res)
       /\ res.error = last.recv.error
  /\ \A i, j \in 1..Len(log) :
       (/\ i < j
        /\ log[i].failed
        /\ \A k \in (i + 1)..j : log[k].op \in {"map", "flatMap"})
         => ~log[j].invoked

\* A chain whose first step succeeded, whose second step failed, and whose
\* third step is a flatMap.
NoCallbackAfterFailureWitness ==
  /\ Len(log) = 3
  /\ ~log[1].failed
  /\ log[2].failed
  /\ log[2].op = "map"
  /\ log[3].op = "flatMap"

\* The lowest index of a failed element of a list that has one.
FirstFailure(list) ==
  CHOOSE i \in 1..Len(list) :
    isFailure(list[i]) /\ \A j \in 1..(i - 1) : isSuccess(list[j])

\* C3: combine of a list with at least one failure is a failure carrying the
\* error of the lowest-index failed element.
CombineFirstFailure ==
  (last.op = "combine" /\ \E i \in 1..Len(last.list) : isFailure(last.list[i])) =>
    /\ isFailure(res)
    /\ res.error = last.list[FirstFailure(last.list)].error

\* combine of a success followed by two different failures.
CombineFirstFailureWitness ==
  /\ last.op = "combine"
  /\ Len(last.list) = 3
  /\ isSuccess(last.list[1])
  /\ isFailure(last.list[2])
  /\ isFailure(last.list[3])
  /\ last.list[2].error # last.list[3].error
  /\ isFailure(res)

\* C4: combine is a success iff every input is; its value is then the array
\* of the inputs' values, in order; combine([]) is success([]).
CombineAllSuccess ==
  last.op = "combine" =>
    /\ isSuccess(res) <=> \A i \in 1..Len(last.list) : isSuccess(last.list[i])
    /\ isSuccess(res) =>
         /\ res.value.t = "array"
         /\ Len(res.value.arr) = Len(last.list)
         /\ \A i \in 1..Len(last.list) : res.value.arr[i] = last.list[i].value
    /\ last.list = <<>> => res = success(Arr(<<>>))

\* combine of three successes, the first two of different values.
CombineAllSuccessWitness ==
  /\ last.op = "combine"
  /\ Len(last.list) = 3
  /\ isSuccess(res)
  /\ last.list[1].value # last.list[2].value

\* The callback of the last map / flatMap / recover was called and threw.
CallbackThrew ==
  /\ last.op \in {"map", "flatMap", "recover"}
  /\ last.invoked
  /\ last.cb.kind = "throw"

\* C8 as claimed: a throw of x inside the callback of map, flatMap or recover
\* yields the failure Result.try yields for a function throwing x.
CatchSameAsTry ==
  CallbackThrew => res = try(last.ref, Throws(last.cb.x)).r

\* C8 amended: that holds when x is a ResultException or a generic Error;
\* any other x is wrapped as new Error(String(x)) first, so the failure is an
\* INTERNAL error with message String(x) and metadata.originalError "Error".
CatchSameAsTryForErrors ==
  CallbackThrew =>
    IF IsError(last.cb.x)
    THEN res = try(last.ref, Throws(last.cb.x)).r
    ELSE /\ isFailure(res)
         /\ res.error.ref = last.ref
         /\ res.error.type = "INTERNAL"
         /\ res.error.code = "INTERNAL"
         /\ res.error.message = ToStr(last.cb.x.val)
         /\ res.error.metadata.originalError = Str("Error")

\* The callback of a map threw the number 7.
CatchSameAsTryWitness ==
  /\ CallbackThrew
  /\ last.op = "map"
  /\ last.cb.x = ThrownVal(Num(7))
  /\ res.error.message = "7"

\* The last operation was a tryAsync without errorKindSelector.
TryAsyncPlain == last.op = "tryAsync" /\ ~last.sel.present

\* C9 as claimed: without selector, tryAsync yields success(v) for a resolved
\* v, and for a throw or rejection x a failure of the kind, code, message and
\* metadata.originalError of the failure of try.
TryAsyncSameAsTry ==
  TryAsyncPlain =>
    LET t == try(last.ref, last.cb).r
    IN /\ res.isSuccess = t.isSuccess
       /\ res.value = t.value
       /\ res.error.type = t.error.type
       /\ res.error.code = t.error.code
       /\ res.error.message = t.error.message
       /\ res.error.metadata.originalError = t.error.metadata.originalError

\* C9 amended: success(v) for a resolved v; the same instance for a
\* ResultException; for a generic Error the kind and message of try, but the
\* Error's name as code and the Error itself as metadata.originalError; for
\* any other x the kind, code and metadata.originalError of try, with x itself
\* as message when x is a string.
TryAsyncLikeTry ==
  TryAsyncPlain =>
    LET t == try(last.ref, last.cb).r
        x == last.cb.x
    IN /\ res.isSuccess = t.isSuccess
       /\ res.value = t.value
       /\ res.error.type = t.error.type
       /\ last.cb.kind = "throw" =>
            CASE IsResultException(x) -> res.error = x.rex /\ res = t
              [] IsError(x) /\ ~IsResultException(x) ->
                   /\ res.error.message = t.error.message
                   /\ res.error.code = x.val.name
                   /\ res.error.metadata.originalError = x.val
              [] OTHER ->
                   /\ res.error.code = t.error.code
                   /\ res.error.metadata.originalError = t.error.metadata.originalError
                   /\ res.error.message =
                        IF x.val.t = "string" THEN x.val.msg ELSE t.error.message

\* tryAsync without selector whose function rejected with a string.
TryAsyncLikeTryWitness ==
  /\ TryAsyncPlain
  /\ last.cb.kind = "throw"
  /\ last.cb.x = ThrownVal(Str("oops"))
  /\ res.error.message = "oops"

\* The documented default status code of every kind.
DocumentedStatus ==
  ("VALIDATION" :> 400) @@ ("NOT_FOUND" :> 404) @@ ("CONFLICT" :> 409)
    @@ ("UNAUTHORIZED" :> 401) @@ ("FORBIDDEN" :> 403) @@ ("INTERNAL" :> 500)
    @@ ("DOMAIN" :> 422) @@ ("APPLICATION" :> 500) @@ ("INFRASTRUCTURE" :> 500)

\* C10: an exception constructed without statusCode has the documented
\* default of its kind; a statusCode given in the options is used instead.
StatusCodeResolved ==
  last.op = "fail" =>
    /\ res.error.type = last.type
    /\ last.opts.statusCode = Undef => res.error.statusCode = DocumentedStatus[last.type]
    /\ last.opts.statusCode # Undef => res.error.statusCode = last.opts.statusCode.n

\* A DOMAIN error constructed without statusCode.
StatusCodeResolvedWitness ==
  /\ last.op = "fail"
  /\ last.type = "DOMAIN"
  /\ last.opts.statusCode = Undef
  /\ res.error.statusCode = DocumentedStatus["DOMAIN"]


(* ----------------- properties of value-object construction ------------- *)

ThrewValidation == vo.threw /\ IsResultException(vo.x) /\ vo.x.rex.type = "VALIDATION"

IsPasswordConstruction == vo.op \in {"UserPassword", "SecurityUserPassword"}

\* The text the password constructor validates: the input, trimmed.
PasswordText == IF vo.input.arr = <<>> THEN <<>> ELSE trim(vo.input.arr)

HasAllClasses(cs) ==
  Has(cs, UpperChars) /\ Has(cs, LowerChars) /\ Has(cs, DigitChars)
    /\ Has(cs, SpecialChars)

\* The rules the concrete type of the constructed object declares, on the
\* value the instance holds.
RulesHold ==
  CASE IsPasswordConstruction ->
         /\ vo.value.t = "string"
         /\ Len(vo.value.arr) <= PasswordMaxLength
         /\ IF vo.options.isHashed = Bool(TRUE)
            THEN Len(vo.value.arr) >= HashedMinLength
                   /\ startsWith(vo.value.arr, HashPrefix)
            ELSE Len(vo.value.arr) >= PlainMinLength
                   /\ HasAllClasses(vo.value.arr) /\ ~HasSpace(vo.value.arr)
    [] vo.op = "NumberValueObject" ->
         /\ isFinite(vo.value)
         /\ vo.options.min # Undef => vo.value.n >= vo.options.min.n
         /\ vo.options.allowNegative = Bool(FALSE) => vo.value.n >= 0
         /\ vo.options.allowZero = Bool(FALSE) => vo.value.n # 0
    [] OTHER -> vo.value.t = "boolean"

\* C5: constructing a value object ends in an instance whose value satisfies
\* every rule of its concrete type, or in a thrown ResultException of type
\* VALIDATION; no instance holds a rule-violating value and nothing else is
\* thrown.
ConstructionValidOrValidation ==
  vo.op # "none" => IF vo.threw THEN ThrewValidation ELSE RulesHold

\* C30 as stated: new UserStatus(b), whose options leave allowNull and
\* convertValues disabled, succeeds for a boolean b, and the value of the
\* instance, which isActive() returns, is b.
BooleanInputAccepted ==
  (vo.op = "UserStatus" /\ vo.input.t = "boolean") =>
    /\ ~vo.threw
    /\ vo.value = vo.input

\* C6: a plaintext password (not marked hashed) that lacks an uppercase
\* letter, a lowercase letter, a digit or a special character is rejected
\* with a ResultException of type VALIDATION, and one that has all four
\* classes, no space and a length within the limits, such as "Abcdef1!", is
\* accepted.
PlaintextComplexity ==
  (IsPasswordConstruction /\ vo.options.isHashed # Bool(TRUE)
     /\ vo.input.t = "string") =>
    IF HasAllClasses(PasswordText)
    THEN (~HasSpace(PasswordText) /\ Len(PasswordText) >= PlainMinLength
            /\ Len(PasswordText) <= PasswordMaxLength)
           => (~vo.threw /\ vo.value = Chars(PasswordText))
    ELSE ThrewValidation

\* C7: a password marked hashed is not held to the complexity rules, so a
\* text of the length of a hash that starts with "$2b$" is accepted whatever
\* classes it lacks, and a text that does not start with "$2b$" is rejected
\* with a ResultException of type VALIDATION.
HashedBypassesComplexity ==
  (IsPasswordConstruction /\ vo.options.isHashed = Bool(TRUE)
     /\ vo.input.t = "string") =>
    IF startsWith(PasswordText, HashPrefix)
    THEN (Len(PasswordText) >= HashedMinLength
            /\ Len(PasswordText) <= PasswordMaxLength)
           => (~vo.threw /\ vo.value = Chars(PasswordText))
    ELSE ThrewValidation


(* --------------------- properties of fromError and hooks --------------- *)

\* C11: fromError returns a ResultException it is given as that very
\* instance, whatever type is passed, so fromError applied to the result of
\* fromError returns the same instance again.
FromErrorIdempotent ==
  /\ (exc.op = "fromError" /\ IsResultException(exc.error)) => exc.out = exc.error.rex
  /\ exc.op = "again" => exc.out = exc.first /\ exc.out.ref = exc.first.ref

\* fromError wrapped a generic Error and was applied again with another type.
FromErrorIdempotentWitness ==
  /\ exc.op = "again"
  /\ ~IsResultException(exc.error)
  /\ exc.type # exc.first.type
  /\ exc.out.ref = FirstFree

\* C12: onSuccess and onFailure call the action once when the variant
\* matches and not at all otherwise, return the Result unaltered, and let no
\* exception of the action out.
HookLeavesResult ==
  hook.op # "none" =>
    /\ hook.r = hook.recv
    /\ hook.calls = IF (hook.op = "onSuccess") = isSuccess(hook.recv) THEN 1 ELSE 0
    /\ hook.calls = 1 =>
         hook.arg = IF hook.op = "onSuccess" THEN hook.recv.value
                    ELSE Num(hook.recv.error.ref)
    /\ ~hook.escaped

\* The action of an onSuccess on a success threw.
HookLeavesResultWitness ==
  /\ hook.op = "onSuccess"
  /\ isSuccess(hook.recv)
  /\ hook.action.kind = "throw"
  /\ hook.calls = 1


(* ------------------ properties of the validation accumulator ----------- *)

\* C13: after any sequence of reportError, combineWith and clearErrors,
\* getErrors returns exactly the issues added since the last clearErrors, in
\* the order they were added, an issue reported twice being kept twice.
ErrorsInInsertionOrder ==
  /\ getErrors(acc.errors) = acc.since
  /\ acc.op = "getErrors" => acc.got = acc.since

\* The same issue was reported twice in a row and then read.
ErrorsInInsertionOrderWitness ==
  /\ acc.op = "getErrors"
  /\ Len(acc.got) = 3
  /\ acc.got[1] # acc.got[2]
  /\ acc.got[2] = acc.got[3]

\* C14: throwIfHasErrors throws exactly when the accumulator holds an issue;
\* the exception is of type VALIDATION, has the code VALIDATION_ERRORS and
\* carries the full list of issues in metadata.errors.
ThrowsIffHasErrors ==
  acc.op = "throwIfHasErrors" =>
    /\ acc.threw <=> acc.since # <<>>
    /\ acc.threw =>
         /\ IsResultException(acc.x)
         /\ acc.x.rex.type = "VALIDATION"
         /\ acc.x.rex.code = "VALIDATION_ERRORS"
         /\ acc.x.rex.metadata.errors = acc.since

\* throwIfHasErrors threw on an accumulator of two issues.
ThrowsIffHasErrorsWitness ==
  /\ acc.op = "throwIfHasErrors"
  /\ acc.threw
  /\ Len(acc.x.rex.metadata.errors) = 2


(* ---------------------------- properties of UUIDv7 --------------------- *)

\* The canonical form: groups of 8, 4, 4, 4 and 12 hexadecimal digits, the
\* third starting with 7, the fourth with 8, 9, a or b.
CanonicalForm(cs) ==
  /\ Len(cs) = 8 + 1 + 4 + 1 + 4 + 1 + 4 + 1 + 12
  /\ \A i \in {9, 14, 19, 24} : cs[i] = "-"
  /\ \A i \in (1..36) \ {9, 14, 19, 24} : IsHexDigit(cs[i])
  /\ cs[15] = "7"
  /\ cs[20] \in VariantChars

\* C15: the text of a generated identifier has the canonical form, and
\* parse of that text gives an identifier of the timestamp it was generated
\* with.
GenerateParseRoundTrip ==
  /\ uid.op \in {"generate", "parse"} => CanonicalForm(uid.a.value)
  /\ (uid.op = "parse" /\ uid.text = uid.a.value) =>
       /\ ~uid.parsed.threw
       /\ uid.parsed.id.timestamp = uid.now
       /\ uid.parsed.id.value = uid.a.value

\* An identifier generated at 0x1234567 was parsed.
GenerateParseRoundTripWitness ==
  /\ uid.op = "parse"
  /\ uid.text = uid.a.value
  /\ uid.now = 19088743
  /\ SubSeq(uid.a.value, 1, 13) =
       <<"0", "0", "0", "0", "0", "1", "2", "3", "-", "4", "5", "6", "7">>

\* A character as a code unit: "-" is 45, the digits 48 to 57, the letters a
\* to f 97 to 102.
CodeUnit(c) ==
  IF c = "-" THEN 45
  ELSE IF HexValue(c) < 10 THEN 48 + HexValue(c) ELSE 87 + HexValue(c)

\* Whether text x is before text y in the lexicographic order.
RECURSIVE LexLess(_, _)
LexLess(x, y) ==
  IF y = <<>> THEN FALSE
  ELSE IF x = <<>> THEN TRUE
  ELSE IF CodeUnit(Head(x)) # CodeUnit(Head(y))
       THEN CodeUnit(Head(x)) < CodeUnit(Head(y))
  ELSE LexLess(Tail(x), Tail(y))

\* C16: identifiers of different timestamps compare as their timestamps do;
\* identifiers of one timestamp compare as their texts do lexicographically.
CompareToOrder ==
  uid.op = "compareTo" =>
    IF uid.a.timestamp # uid.b.timestamp
    THEN /\ uid.cmp < 0 <=> uid.a.timestamp < uid.b.timestamp
         /\ uid.cmp > 0 <=> uid.a.timestamp > uid.b.timestamp
    ELSE /\ uid.cmp < 0 <=> LexLess(uid.a.value, uid.b.value)
         /\ uid.cmp > 0 <=> LexLess(uid.b.value, uid.a.value)

\* Two different identifiers of one timestamp were compared.
CompareToOrderWitness ==
  /\ uid.op = "compareTo"
  /\ uid.a.timestamp = uid.b.timestamp
  /\ uid.cmp < 0

(* ------------------- properties of the User entity and policies -------- *)

MutationOps ==
  {"changeName", "changeEmail", "changePassword", "activate", "deactivate"}

\* The policy of the method called last, asked about the entity as it was
\* before the call, with the arguments of the call.
PolicyOfCall ==
  CASE usr.op = "changeName" ->
         Returned(canChangeName(FirstFree, usr.before, usr.args.newName))
    [] usr.op = "changeEmail" ->
         Returned(canChangeEmail(FirstFree, usr.before, usr.args.newEmail))
    [] usr.op = "changePassword" ->
         canChangePassword(FirstFree, usr.before.password,
                           usr.args.currentPassword, usr.args.newPassword)
    [] usr.op = "activate" -> Returned(canActivate(FirstFree, usr.before))
    [] OTHER -> Returned(canDeactivate(FirstFree, usr.before))

\* C17: a mutation method of User returns the failure of its policy and
\* leaves name, email, password, active flag and pending events as they
\* were when the policy fails; the entity changes only when the policy
\* succeeded, and then exactly one 'user.updated' event is appended.
PolicyBeforeChange ==
  usr.op \in MutationOps =>
    LET policy == PolicyOfCall
    IN /\ (~policy.threw /\ isFailure(policy.val)) =>
            /\ ~usr.threw
            /\ usr.ret = policy.val
            /\ usr.this = usr.before
       /\ usr.this # usr.before =>
            /\ ~policy.threw
            /\ isSuccess(policy.val)
            /\ usr.this.events = Append(usr.before.events, "user.updated")

\* C19: canChangeEmail fails with INACTIVE_USER_UPDATE for an inactive user
\* whatever the new email, with SAME_EMAIL_UPDATE for an active user whose
\* new email is the current one, and succeeds for an active user with
\* another email.
CanChangeEmailCodes ==
  usr.op = "canChangeEmail" =>
    /\ ~usr.before.active =>
         isFailure(usr.ret) /\ usr.ret.error.code = "INACTIVE_USER_UPDATE"
    /\ (usr.before.active /\ usr.args.newEmail = usr.before.email) =>
         isFailure(usr.ret) /\ usr.ret.error.code = "SAME_EMAIL_UPDATE"
    /\ (usr.before.active /\ usr.args.newEmail # usr.before.email) =>
         isSuccess(usr.ret)

\* An inactive user is asked about the email it already has.
CanChangeEmailCodesWitness ==
  /\ usr.op = "canChangeEmail"
  /\ ~usr.before.active
  /\ usr.args.newEmail = usr.before.email
  /\ isFailure(usr.ret)
  /\ usr.ret.error.code = "INACTIVE_USER_UPDATE"

(* ----------------------- properties of compare ------------------------- *)

\* C20: compare on a password that is not hashed throws a ResultException of
\* type DOMAIN; it returns no boolean.
CompareNeedsHash ==
  (pw.op = "compare" /\ ~pw.this.isHashed) =>
    /\ pw.out.threw
    /\ IsResultException(pw.out.x)
    /\ pw.out.x.rex.type = "DOMAIN"

(* ------------------------------ userMapper ----------------------------- *)

\* The names and emails of stored users, as characters: "Ed", "Edda",
\* "a@b.ca", "A@b.ca".
StoredNames == {<<"E", "d">>, <<"E", "d", "d", "a">>}

StoredEmails == {<<"a", "@", "b", ".", "c", "a">>, <<"A", "@", "b", ".", "c", "a">>}

\* The characters of name.value / email.value of a stored user.
CharsOf(text) == CHOOSE cs \in StoredNames \cup StoredEmails : Text(cs) = text

\* The document UserSchema {name, email, password, active}; the _id is left
\* out, as in the entity.
UserDocument(name, email, password, active) ==
  [name |-> name, email |-> email, password |-> password, active |-> active]

\* user.getPassword(): the entity of contexts/security has it and answers
\* this._password.hash(); the entity of context/domain has no such method.
getPassword(ref, user) ==
  IF user.class = "ContextUser"
  THEN Raised(ThrownVal(Err("TypeError", "user.getPassword is not a function")))
  ELSE hash(ref, user.password)

\* The document toPersistence returns, password being how getPassword()
\* ended: the field password is password.toString().
PersistedAs(user, password) ==
  IF password.threw THEN Raised(password.x)
  ELSE Returned(UserDocument(CharsOf(user.name), CharsOf(user.email),
                             toString(password.val), user.active))

\* userMapper.toPersistence(userAggregate)
toPersistence(ref, user) == PersistedAs(user, getPassword(ref, user))

\* The body of reconstituteAggregate once the value objects are constructed;
\* User.reconstitute adds no event.
reconstituteAggregateOf(class, userName, userEmail, userPassword, userActive) ==
  IF userName.threw THEN Raised(userName.x)
  ELSE IF userEmail.threw THEN Raised(userEmail.x)
  ELSE IF userPassword.threw THEN Raised(userPassword.x)
  ELSE IF userActive.threw THEN Raised(userActive.x)
  ELSE Returned(User(class, Text(userName.value.arr), Text(userEmail.value.arr),
                     Password(IF class = "ContextUser" THEN "UserPassword"
                              ELSE "SecurityUserPassword",
                              userPassword.value.arr, TRUE),
                     userActive.value.n = 1, <<>>))

\* UserFactory.reconstituteAggregate(data) of context/domain and
\* userFactory.reconstituteAggregate(data) of contexts/security.
reconstituteAggregate(ref, class, data) ==
  IF class = "ContextUser"
  THEN reconstituteAggregateOf(class, UserName(ref, Chars(data.name)),
         UserEmail(ref, Chars(data.email)),
         UserPassword(ref, data.hashedPassword, PasswordOptions(Bool(TRUE))),
         UserActive(ref, Bool(data.active)))
  ELSE reconstituteAggregateOf(class, SecurityUserName(ref, Chars(data.name)),
         SecurityUserEmail(ref, Chars(data.email)),
         SecurityUserPassword(ref, data.hashedPassword, PasswordOptions(Bool(TRUE))),
         UserActive(ref, Bool(data.active)))

\* userMapper.toDomain(userDocument), for the aggregate of the class.
toDomain(ref, class, userDocument) ==
  reconstituteAggregate(ref, class,
    [name |-> userDocument.name, email |-> userDocument.email,
     hashedPassword |-> userDocument.password, active |-> userDocument.active])

\* The aggregates handed to the mapper: their password is the hash of a
\* plain text, as User.create leaves it.
StoredUsers ==
  [class : {"ContextUser", "SecurityUser"}, name : StoredNames,
   email : StoredEmails, plain : PlainTexts, active : BOOLEAN]

\* The entity of a stored user.
StoredUser(u) ==
  User(u.class, Text(u.name), Text(u.email),
       Password(IF u.class = "ContextUser" THEN "UserPassword"
                ELSE "SecurityUserPassword", bcrypt_hash(u.plain), TRUE),
       u.active, <<>>)

\* What per records of toPersistence.
Persisted(user, plain, out) ==
  [NoPer EXCEPT !.op = "toPersistence", !.user = user, !.plain = plain,
                !.threw = out.threw, !.x = out.x,
                !.doc = IF out.threw THEN NoPer.doc ELSE out.val]

\* aggregate.verifyPassword(plain) of the aggregate read back.
Verified(previous, out, verified) ==
  [previous EXCEPT !.op = "toDomain", !.threw = out.threw \/ verified.threw,
                   !.x = IF out.threw THEN out.x ELSE verified.x,
                   !.loaded = IF out.threw THEN NoPer.loaded ELSE out.val,
                   !.verified = verified.val]

\* What verifyPassword(plain) gives on what toDomain ended in.
verifyPassword(ref, out, plain) ==
  IF out.threw THEN Raised(out.x) ELSE compare(ref, out.val.password, plain)

\* repository.save: userMapper.toPersistence(aggregate)
ToPersistence ==
  /\ \E u \in StoredUsers :
       per' = Persisted(StoredUser(u), u.plain, toPersistence(FirstFree, StoredUser(u)))
  /\ UNCHANGED OutsidePersistence

\* repository.findByEmail: userMapper.toDomain(document) of the document
\* written last, and then verifyPassword with the plain text.
ToDomain ==
  /\ per.op = "toPersistence"
  /\ ~per.threw
  /\ per' = Verified(per, toDomain(FirstFree, per.user.class, per.doc),
               verifyPassword(FirstFree,
                 toDomain(FirstFree, per.user.class, per.doc), per.plain))
  /\ UNCHANGED OutsidePersistence

NextPersistence ==
  \/ ToPersistence
  \/ ToDomain

\* Aggregates are written and read back, one after the other.
SpecPersistence == Init /\ [][NextPersistence]_vars

(* ----------------------- properties of fromTimestamp ------------------- *)

\* C26 as stated: for every timestamp fromTimestamp accepts, the text of
\* the identifier has the canonical form, and parse of the text gives the
\* timestamp the identifier has, which is the timestamp given.
FromTimestampRoundTrip ==
  /\ (ts.op # "none" /\ ~ts.made.threw) =>
       /\ CanonicalForm(ts.made.id.value)
       /\ ts.made.id.timestamp = ts.timestamp.magnitude
  /\ ts.op = "parse" =>
       /\ ~ts.parsed.threw
       /\ ts.parsed.id.timestamp = ts.made.id.timestamp

(* ----------------------- properties of identifier objects ------------- *)

\* C25 as stated: two identifiers are equal exactly when compareTo is 0,
\* whatever the case of the letters they were given in, and the value of an
\* identifier is the text of its UUIDv7.
EqualsIffCompareZero ==
  /\ (idv.op # "none" /\ ~idv.a.threw) => idv.a.value = idv.a.uuid.value
  /\ idv.op = "compare" => (idv.eq <=> (idv.cmp = 0))

(* ----------------------- properties of a thrown error ------------------ *)

\* C24: metadata.errors of the exception thrown by throwIfHasErrors stays
\* the list it was at the throw, whatever is called on the accumulator
\* afterwards.
ThrownErrorsFixed == acc.thrown.metadata.errors = acc.atThrow

(* ----------------------- properties of the aggregate ------------------- *)

\* C22: after the constructor and after every operation of the aggregate
\* that completes, the entity has no pending event, and the aggregate's
\* pending events are the events the entity emitted, once each and in the
\* order of emission.
EventsDrained ==
  (agg.op # "none" /\ ~agg.threw) =>
    /\ agg.user.events = <<>>
    /\ agg.events = agg.emitted

\* A created user was renamed: the aggregate holds both events, in order.
EventsDrainedWitness ==
  /\ agg.op = "changeName"
  /\ ~agg.threw
  /\ agg.user.events = <<>>
  /\ agg.events = <<"user.created", "user.updated">>

(* ----------------------- properties of the mapper ---------------------- *)

\* C23: toPersistence of a stored aggregate succeeds, and toDomain of the
\* document it wrote succeeds and gives a user with the same name, email and
\* active flag whose verifyPassword(p) is true, p being the plain text of
\* the password.
RoundTripKeepsCredentials ==
  /\ per.op = "toPersistence" => ~per.threw
  /\ per.op = "toDomain" =>
       /\ ~per.threw
       /\ per.loaded.name = per.user.name
       /\ per.loaded.email = per.user.email
       /\ per.loaded.active = per.user.active
       /\ per.verified = Bool(TRUE)

(* ----------------------- properties of serialization ------------------- *)

\* C21: toString() and toJSON() of a password depend on its isHashed flag
\* only, never on its text: toString() is the fixed text and toJSON() is
\* the object that holds the flag.
PasswordNeverSerialized ==
  /\ pw.op = "toString" => pw.out.val = Str("[PROTECTED PASSWORD]")
  /\ pw.op = "toJSON" => pw.out.val = IsHashedObject(pw.this.isHashed)

\* The message of the errors compare throws; it is a literal.
CompareMessage == "No se puede comparar con una contraseña que no está hasheada"

\* The keys of the metadata of the exception thrown that hold the stored
\* text of the password or the text compared with it.
SecretKeys(metadata) ==
  {k \in DOMAIN metadata \ DOMAIN EmptyMeta :
     metadata[k] = pw.this.value \/ metadata[k] = pw.plain}

\* C29 as stated: an error thrown by compare carries neither the stored
\* text of the password nor the text compared with it, in its message or
\* in its metadata.
CompareErrorHidesPasswords ==
  (pw.op = "compare" /\ pw.out.threw) =>
    /\ MessageOf(pw.out.x) = CompareMessage
    /\ IsResultException(pw.out.x) => SecretKeys(pw.out.x.rex.metadata) = {}

(* ----------------------- properties of registration -------------------- *)

\* The password of the request breaks a rule of the password value object:
\* it is shorter than the minimum, holds a space, or lacks a class.
WeakPassword ==
  LET cs == trim(cmd.request.password.arr)
  IN Len(cs) < PlainMinLength \/ HasSpace(cs) \/ ~HasAllClasses(cs)

SaveCalls == Cardinality({i \in DOMAIN cmd.calls : cmd.calls[i] = "save"})

ValidCredentials ==
  /\ isSuccess(lgn.users)
  /\ ~getValue(lgn.users).val.null
  /\ getValue(lgn.users).val.user.active
  /\ getValue(lgn.users).val.user.password.isHashed
  /\ bcrypt_compare(lgn.request.password, getValue(lgn.users).val.user.password.value)

====
